---------------------------- MODULE Spec2Model ----------------------------
(***************************************************************************)
(* The generalized fuzzy search engine of ae-saas-basic: the entity        *)
(* registry and the FuzzySearchConfig singleton of FuzzySearchService, the *)
(* query builder (searchEntity / buildSearchConditions), the scorer        *)
(* (calculateRelevanceScore / calculateFieldScore / calculateFuzzyScore),  *)
(* the cross-entity merge and pagination of Search, and the HTTP adapter   *)
(* of internal/handlers/fuzzy_search.go behind the routes of SetupRouter.  *)
(* Spec is the engine with one request at a time.  RaceSpec is the         *)
(* accesses of concurrent requests to the registry and the config of the   *)
(* shared service.  AuthSpec is the accounts, tokens and token blacklist   *)
(* behind Register, Login, Logout and AuthMiddleware.  ScorerSpec is the   *)
(* functions of the query builder and the scorer, each called on its own.  *)
(*                                                                         *)
(* Strings are sequences of one-character strings; len() is Len().  The    *)
(* float64 values of the code (weights, boosts, threshold, scores) are     *)
(* exact fixed-point integers: configuration values are in tenths, scores  *)
(* in units of 1/ScoreOne.  The relational store is modelled by what a     *)
(* well-formed query does on it: rows are records, a predicate on a column *)
(* the table does not have fails the query.  Column names, filter keys and *)
(* terms carry no SQL metacharacters; joins, ORDER BY and GROUP BY are not *)
(* modelled (rows come back in the store's order).                         *)
(***************************************************************************)
EXTENDS Integers, Sequences, FiniteSets, TLC

VARIABLES
    entities,       \* FuzzySearchService.entities : name -> EntityConfig
    config,         \* FuzzySearchService.config   : FuzzySearchConfig
    lastRegistered, \* history: the config passed in the latest accepted registration of each name
    pc,             \* "idle" (no request in progress) or "responded"
    req,            \* the request being answered
    resp,           \* the HTTP response of the handler
    probe,          \* history of the Search call: what was queried, fetched and merged
    goroutines,     \* the service method each concurrent request is in, and what it accesses
    fatal,          \* the Go runtime has detected a concurrent map access and ended the process
    accounts,       \* the users table: id -> row
    blacklist,      \* the token_blacklist table
    now,            \* time.Now().Unix() and the database's NOW(), in seconds
    logins,         \* history: the tokens GenerateJWT has issued, one per successful Login
    revoked,        \* history: the tokens a Logout has answered 200 for
    registered,     \* history: the registrations Register has answered 201 for
    call            \* the latest call of a function of the query builder or the scorer, with its result

searchVars == <<entities, config, lastRegistered>>
raceVars == <<goroutines, fatal>>
authVars == <<accounts, blacklist, now, logins, revoked, registered>>
vars == <<entities, config, lastRegistered, pc, req, resp, probe, raceVars, authVars, call>>

-----------------------------------------------------------------------------
(* Strings *)

\* strings.ToLower on one character of the model's alphabet
LowerChar(c) ==
    CASE c = "A" -> "a"
      [] c = "B" -> "b"
      [] c = "G" -> "g"
      [] c = "M" -> "m"
      [] c = "R" -> "r"
      [] c = "W" -> "w"
      [] OTHER -> c

ToLower(s) == [i \in DOMAIN s |-> LowerChar(s[i])]

IsSpace(c) == c = " "

RECURSIVE TrimLeft(_)
TrimLeft(s) ==
    IF s # <<>> /\ IsSpace(Head(s)) THEN TrimLeft(Tail(s)) ELSE s

RECURSIVE TrimRight(_)
TrimRight(s) ==
    IF s # <<>> /\ IsSpace(s[Len(s)]) THEN TrimRight(SubSeq(s, 1, Len(s) - 1)) ELSE s

TrimSpace(s) == TrimRight(TrimLeft(s))

\* strings.Fields: the maximal runs of non-space characters, in order
RECURSIVE FieldsFrom(_, _, _)
FieldsFrom(s, cur, acc) ==
    IF s = <<>>
    THEN IF cur = <<>> THEN acc ELSE Append(acc, cur)
    ELSE IF IsSpace(Head(s))
         THEN FieldsFrom(Tail(s), <<>>, IF cur = <<>> THEN acc ELSE Append(acc, cur))
         ELSE FieldsFrom(Tail(s), Append(cur, Head(s)), acc)

Fields(s) == FieldsFrom(s, <<>>, <<>>)

HasPrefix(s, p) == Len(p) <= Len(s) /\ SubSeq(s, 1, Len(p)) = p

Contains(s, p) == \E i \in 0..(Len(s) - Len(p)) : SubSeq(s, i + 1, i + Len(p)) = p

ContainsRune(s, c) == \E i \in DOMAIN s : s[i] = c

SeqToSet(s) == {s[i] : i \in DOMAIN s}

RECURSIVE SumSeq(_)
SumSeq(s) == IF s = <<>> THEN 0 ELSE Head(s) + SumSeq(Tail(s))

\* the largest element of s, or m when none is larger
MaxSeq(s, m) ==
    LET all == SeqToSet(s) \cup {m}
    IN  CHOOSE x \in all : \A y \in all : y <= x

\* the one element of a singleton set (its elements are evaluated once)
The(S) == CHOOSE v \in S : TRUE

\* the concatenation of the sequences of ss
RECURSIVE Concat(_)
Concat(ss) == IF ss = <<>> THEN <<>> ELSE Head(ss) \o Concat(Tail(ss))

-----------------------------------------------------------------------------
(* Fixed point *)

\* 1.0 in tenths
Tenth == 2 * 5
\* the denominators of the fuzzy ratio (term lengths up to 7, halved)
FuzzyScale == 4 * 21
\* a match score of 1.0
MatchOne == Tenth * FuzzyScale
\* a row score of 1.0: match score * (1 + boost) * weight
ScoreOne == MatchOne * Tenth * Tenth


-----------------------------------------------------------------------------
(* The relational store: each table is a sequence of rows, each row a      *)
(* record of its columns.  NULL and the empty string are both <<>>.        *)
(* users has the columns of migration 003, plans those of the Plan model;  *)
(* widgets is a table of the host application, for custom entities.        *)

Acme       == <<"A", "c", "m", "e">>
acme       == <<"a", "c", "m", "e">>
Mace       == <<"M", "a", "c", "e">>
BlueWidget == <<"B", "l", "u", "e", " ", "W", "i", "d", "g", "e", "t">>
RedGadget  == <<"R", "e", "d", " ", "G", "a", "d", "g", "e", "t">>
AcmePro    == <<"A", "c", "m", "e", " ", "p", "r", "o">>
Basic      == <<"B", "a", "s", "i", "c">>
camel      == <<"c", "a", "m", "e", "l">>

UserRow(id, org, active, firstName, lastName, username) ==
    [id |-> id, created_at |-> <<>>, updated_at |-> <<>>, deleted_at |-> <<>>,
     username |-> username, email |-> <<>>, password_hash |-> <<>>,
     first_name |-> firstName, last_name |-> lastName, role |-> <<>>,
     organization_id |-> org, active |-> active]

PlanRow(id, active, name, description) ==
    [id |-> id, created_at |-> <<>>, updated_at |-> <<>>, deleted_at |-> <<>>,
     name |-> name, slug |-> <<>>, description |-> description, price |-> <<>>,
     currency |-> <<>>, invoice_period |-> <<>>, max_users |-> <<>>,
     max_clients |-> <<>>, features |-> <<>>, active |-> active]

WidgetRow(id, org, user, active, title) ==
    [id |-> id, organization_id |-> org, user_id |-> user, active |-> active,
     title |-> title]

Tables == {"users", "plans", "widgets"}

Store ==
    [t \in Tables |->
        CASE t = "users" ->
                << UserRow(1, 1, TRUE, Acme, Mace, acme),
                   UserRow(2, 2, TRUE, acme, camel, camel),
                   UserRow(3, 1, TRUE, Mace, <<>>, AcmePro),
                   UserRow(4, 2, FALSE, camel, Acme, Basic) >>
          [] t = "plans" ->
                << PlanRow(1, TRUE, AcmePro, acme),
                   PlanRow(2, FALSE, Basic, Mace),
                   PlanRow(3, TRUE, acme, <<>>) >>
          [] t = "widgets" ->
                << WidgetRow(1, 1, 1, TRUE, BlueWidget),
                   WidgetRow(2, 2, 2, TRUE, RedGadget),
                   WidgetRow(3, 1, 3, FALSE, Acme),
                   WidgetRow(4, 2, 2, TRUE, acme) >>]

\* getField: the column's value as text, "" when the row lacks it
getField(row, field) ==
    IF field \in DOMAIN row THEN row[field] ELSE <<>>

-----------------------------------------------------------------------------
(* FuzzySearchConfig and EntityConfig *)

DefaultFuzzySearchConfig ==
    [MinSearchLength  |-> 2,
     MaxResults       |-> 50,
     ScoreThreshold   |-> 1,      \* 0.1
     EnableHighlight  |-> TRUE,
     CaseSensitive    |-> FALSE,
     ExactMatchBoost  |-> 20,     \* 2.0
     PrefixMatchBoost |-> 15]     \* 1.5

\* FieldConfig
Field(name, weight, searchType, boost, minLength) ==
    [Name |-> name, Weight |-> weight, SearchType |-> searchType,
     Boost |-> boost, MinLength |-> minLength]

\* PermissionConfig
Permissions(requireAuth, ownershipField, tenantField) ==
    [RequireAuth |-> requireAuth, OwnershipField |-> ownershipField,
     TenantField |-> tenantField]

\* EntityConfig
Entity(tableName, searchFields, selectFields, whereClause, permissions) ==
    [TableName |-> tableName, SearchFields |-> searchFields,
     SelectFields |-> selectFields, WhereClause |-> whereClause,
     Permissions |-> permissions]

\* a registry that keeps the first config of a name
RegisterEntityKeepFirst(ents, entityType, cfg) ==
    [n \in DOMAIN ents \cup {entityType} |->
        IF n \in DOMAIN ents THEN ents[n] ELSE cfg]

\* RegisterEntity: s.entities[entityType] = config
RegisterEntity(ents, entityType, cfg) ==
    [n \in DOMAIN ents \cup {entityType} |->
        IF n = entityType THEN cfg ELSE ents[n]]

UsersConfig ==
    Entity("users",
           << Field("first_name", 10, "contains", 0, 0),
              Field("last_name", 10, "contains", 0, 0),
              Field("email", 8, "contains", 0, 0),
              Field("username", 9, "prefix", 0, 0) >>,
           <<"id", "first_name", "last_name", "email", "username", "created_at">>,
           "active = true",
           Permissions(TRUE, "", "organization_id"))

PlansConfig ==
    Entity("plans",
           << Field("name", 10, "contains", 0, 0),
              Field("description", 6, "fulltext", 0, 0),
              Field("features", 4, "contains", 0, 0) >>,
           <<"id", "name", "description", "price", "currency", "billing_cycle">>,
           "active = true",
           Permissions(FALSE, "", ""))

\* RegisterDefaultEntities (the users and the plans; customers, contacts and
\* emails are registered like users, with other tables and columns)
RegisterDefaultEntities ==
    RegisterEntity(RegisterEntity(<<>>, "users", UsersConfig),
                   "plans", PlansConfig)

-----------------------------------------------------------------------------
(* SearchOptions *)

\* a nil *uint
Nil == 0 - 1

SearchOptions(query, entityTypes, filters, sortBy, offset, limit, userID, tenantID) ==
    [Query |-> query, EntityTypes |-> entityTypes, Filters |-> filters,
     SortBy |-> sortBy, Offset |-> offset, Limit |-> limit,
     UserID |-> userID, TenantID |-> tenantID]

-----------------------------------------------------------------------------
(* Query builder *)

\* tokenizeQuery: the whitespace-separated terms of at least MinSearchLength
tokenizeQuery(cfg, query) ==
    SelectSeq(Fields(TrimSpace(query)), LAMBDA t : Len(t) >= cfg.MinSearchLength)

\* the ".*?" that buildFuzzyPattern puts between two characters
Dots == "DOTS"

\* buildFuzzyPattern
buildFuzzyPattern(term) ==
    IF Len(term) <= 3 THEN term
    ELSE <<Head(term)>> \o
         [i \in 1..(2 * (Len(term) - 1)) |->
             IF i % 2 = 1 THEN Dots ELSE term[(i \div 2) + 1]]

\* text SIMILAR TO pattern: the period is no metacharacter of SIMILAR TO, so
\* ".*?" stands for a possibly empty run of periods
RECURSIVE SimilarTo(_, _)
SimilarTo(text, pattern) ==
    IF pattern = <<>> THEN text = <<>>
    ELSE IF Head(pattern) = Dots
         THEN \/ SimilarTo(text, Tail(pattern))
              \/ text # <<>> /\ Head(text) = "." /\ SimilarTo(Tail(text), pattern)
         ELSE text # <<>> /\ Head(text) = Head(pattern)
              /\ SimilarTo(Tail(text), Tail(pattern))

NoCondition == [Kind |-> "none"]

\* buildFieldCondition: the predicate of one (field, term) pair; Fold says
\* that the column is wrapped in LOWER()
buildFieldCondition(cfg, field, term) ==
    IF Len(term) < field.MinLength THEN NoCondition
    ELSE LET searchTerm == IF ~cfg.CaseSensitive THEN ToLower(term) ELSE term
             kind == IF field.SearchType \in {"exact", "prefix", "contains", "fulltext", "fuzzy"}
                     THEN field.SearchType ELSE "contains"
         IN  [Kind |-> kind, Column |-> field.Name, Term |-> searchTerm,
              Fold |-> ~cfg.CaseSensitive /\ kind # "fulltext"]

\* what the store answers for one predicate on one row
ConditionHolds(cond, row) ==
    LET raw  == row[cond.Column]
        text == IF cond.Fold THEN ToLower(raw) ELSE raw
    IN  CASE cond.Kind = "exact"    -> text = cond.Term
          [] cond.Kind = "prefix"   -> HasPrefix(text, cond.Term)
          [] cond.Kind = "contains" -> Contains(text, cond.Term)
          [] cond.Kind = "fulltext" ->
                \E i \in DOMAIN Fields(raw) : ToLower(Fields(raw)[i]) = ToLower(cond.Term)
          [] cond.Kind = "fuzzy"    -> SimilarTo(text, buildFuzzyPattern(cond.Term))
          [] OTHER -> FALSE

\* buildSearchConditions: the predicates that are ORed, field by field and
\* term by term; the empty sequence is the empty string (no condition)
buildSearchConditions(cfg, fields, searchQuery) ==
    IF searchQuery = <<>> THEN <<>>
    ELSE LET searchTerms == tokenizeQuery(cfg, searchQuery)
             pairs == [k \in 1..(Len(fields) * Len(searchTerms)) |->
                          buildFieldCondition(cfg,
                              fields[((k - 1) \div Len(searchTerms)) + 1],
                              searchTerms[((k - 1) % Len(searchTerms)) + 1])]
         IN  SelectSeq(pairs, LAMBDA c : c # NoCondition)

-----------------------------------------------------------------------------
(* Scorer *)

\* calculateFuzzyScore, in units of 1/MatchOne
calculateFuzzyScore(text, term) ==
    IF Len(term) < 3 THEN 0
    ELSE LET matches == Cardinality({i \in DOMAIN term : ContainsRune(text, term[i])})
         IN  IF 2 * matches < Len(term) THEN 0
             ELSE (MatchOne * matches) \div (2 * Len(term))

\* calculateFieldScore with the two boosts taken for each other
TermScoreBoostsSwapped(cfg, field, fieldValue, term) ==
    LET termLower == ToLower(term)
        score == IF fieldValue = termLower THEN cfg.PrefixMatchBoost * FuzzyScale
                 ELSE IF HasPrefix(fieldValue, termLower) THEN cfg.ExactMatchBoost * FuzzyScale
                 ELSE IF Contains(fieldValue, termLower) THEN MatchOne
                 ELSE calculateFuzzyScore(fieldValue, termLower)
    IN  score * (Tenth + field.Boost)

\* the score of one term against the lower-cased field value
TermScore(cfg, field, fieldValue, term) ==
    LET termLower == ToLower(term)
        score == IF fieldValue = termLower THEN cfg.ExactMatchBoost * FuzzyScale
                 ELSE IF HasPrefix(fieldValue, termLower) THEN cfg.PrefixMatchBoost * FuzzyScale
                 ELSE IF Contains(fieldValue, termLower) THEN MatchOne
                 ELSE calculateFuzzyScore(fieldValue, termLower)
    IN  score * (Tenth + field.Boost)

\* calculateFieldScore, in units of 1/(MatchOne * Tenth)
calculateFieldScore(cfg, field, fieldValue, searchTerms) ==
    LET lowered == ToLower(fieldValue)
    IN  MaxSeq([i \in DOMAIN searchTerms |-> TermScore(cfg, field, lowered, searchTerms[i])], 0)

\* calculateRelevanceScore, in units of 1/ScoreOne
calculateRelevanceScore(cfg, fields, row, query) ==
    IF query = <<>> THEN 0
    ELSE LET searchTerms == tokenizeQuery(cfg, query)
         IN  SumSeq([i \in DOMAIN fields |->
                 LET fieldValue == getField(row, fields[i].Name)
                 IN  IF fieldValue = <<>> THEN 0
                     ELSE calculateFieldScore(cfg, fields[i], fieldValue, searchTerms)
                          * fields[i].Weight])

\* config.ScoreThreshold in units of 1/ScoreOne
Threshold(cfg) == cfg.ScoreThreshold * (ScoreOne \div Tenth)

-----------------------------------------------------------------------------
(* Highlights *)

\* strings.ReplaceAll for a non-empty old: the occurrences of old are
\* replaced from left to right, without overlap
RECURSIVE ReplaceAll(_, _, _)
ReplaceAll(s, old, new) ==
    IF old = <<>> \/ Len(s) < Len(old) THEN s
    ELSE IF HasPrefix(s, old)
         THEN new \o ReplaceAll(SubSeq(s, Len(old) + 1, Len(s)), old, new)
         ELSE <<Head(s)>> \o ReplaceAll(Tail(s), old, new)

\* fmt.Sprintf("<mark>%s</mark>", term)
Mark(term) ==
    <<"<", "m", "a", "r", "k", ">">> \o term \o <<"<", "/", "m", "a", "r", "k", ">">>

\* the loop of highlightText over the terms, from term i on
RECURSIVE highlightFrom(_, _, _, _)
highlightFrom(cfg, highlighted, terms, i) ==
    IF i > Len(terms) THEN highlighted
    ELSE LET term == terms[i]
             marked == ReplaceAll(highlighted, term, Mark(term))
         IN  highlightFrom(cfg,
                 IF ~cfg.CaseSensitive
                 THEN IF Contains(ToLower(highlighted), ToLower(term))
                      THEN marked ELSE highlighted
                 ELSE marked,
                 terms, i + 1)

highlightText(cfg, text, terms) == highlightFrom(cfg, text, terms, 1)

\* generateHighlights: the highlighted values of the search fields that the
\* highlighting changes
generateHighlights(cfg, fields, row, query) ==
    LET searchTerms == tokenizeQuery(cfg, query)
        texts == [i \in DOMAIN fields |->
                     LET fieldValue == getField(row, fields[i].Name)
                     IN  IF fieldValue = <<>> THEN <<>>
                         ELSE LET highlighted == highlightText(cfg, fieldValue, searchTerms)
                              IN  IF highlighted # fieldValue THEN highlighted ELSE <<>>]
    IN  SelectSeq(texts, LAMBDA h : h # <<>>)


-----------------------------------------------------------------------------
(* searchEntity *)

Columns(table) == DOMAIN Store[table][1]

\* searchEntity without its tenant filter
TenantFilterDropped(ecfg, options) == FALSE

\* the tenant filter of searchEntity is applied
TenantFiltered(ecfg, options) ==
    options.TenantID # Nil /\ ecfg.Permissions.TenantField # ""

\* the ownership filter of searchEntity is applied
OwnerFiltered(ecfg, options) ==
    options.UserID # Nil /\ ecfg.Permissions.OwnershipField # ""

\* the columns of the static where clause
WhereColumns(whereClause) == IF whereClause = "" THEN {} ELSE {"active"}

\* every column the built query names
ReferencedColumns(ecfg, options, conditions) ==
    WhereColumns(ecfg.WhereClause)
    \cup (IF TenantFiltered(ecfg, options) THEN {ecfg.Permissions.TenantField} ELSE {})
    \cup (IF OwnerFiltered(ecfg, options) THEN {ecfg.Permissions.OwnershipField} ELSE {})
    \cup DOMAIN options.Filters
    \cup {conditions[i].Column : i \in DOMAIN conditions}
    \cup SeqToSet(ecfg.SelectFields)

\* query.Find fails: no such table, or no such column
QueryFails(ecfg, options, conditions) ==
    \/ ecfg.TableName \notin Tables
    \/ ~(ReferencedColumns(ecfg, options, conditions) \subseteq Columns(ecfg.TableName))

\* the WHERE of the built query on one row
RowSelected(ecfg, options, conditions, row) ==
    /\ ecfg.WhereClause # "" => row.active
    /\ TenantFiltered(ecfg, options) => row[ecfg.Permissions.TenantField] = options.TenantID
    /\ OwnerFiltered(ecfg, options) => row[ecfg.Permissions.OwnershipField] = options.UserID
    /\ \A f \in DOMAIN options.Filters : row[f] = options.Filters[f]
    /\ conditions # <<>> => \E i \in DOMAIN conditions : ConditionHolds(conditions[i], row)

\* query.Select: the row as the result set holds it
Project(ecfg, row) ==
    IF ecfg.SelectFields = <<>> THEN row
    ELSE [c \in SeqToSet(ecfg.SelectFields) |-> row[c]]

\* convertToSearchResult (Row is the store's row behind the result)
convertToSearchResult(cfg, entityType, ecfg, stored, options) ==
    LET row == Project(ecfg, stored)
    IN  [Type  |-> entityType,
         ID    |-> IF "id" \in DOMAIN row THEN row.id ELSE Nil,
         Score |-> calculateRelevanceScore(cfg, ecfg.SearchFields, row, options.Query),
         Highlights |-> IF cfg.EnableHighlight
                        THEN generateHighlights(cfg, ecfg.SearchFields, row, options.Query)
                        ELSE <<>>,
         Row   |-> [Table |-> ecfg.TableName, id |-> stored.id]]

\* searchEntity keeping every converted row
ThresholdDropped(cfg, result) == TRUE

\* the threshold test of searchEntity
PassesThreshold(cfg, result) == result.Score >= Threshold(cfg)

\* the rest of searchEntity once query.Find has answered with rows
Converted(cfg, entityType, ecfg, options, rows) ==
    [err |-> FALSE, rows |-> rows,
     results |-> SelectSeq([i \in DOMAIN rows |->
                               convertToSearchResult(cfg, entityType, ecfg, rows[i], options)],
                           LAMBDA x : PassesThreshold(cfg, x))]

\* the query of searchEntity with its search conditions built
Find(cfg, entityType, ecfg, options, conditions) ==
    IF QueryFails(ecfg, options, conditions)
    THEN [err |-> TRUE, rows |-> <<>>, results |-> <<>>]
    ELSE Converted(cfg, entityType, ecfg, options,
                   SelectSeq(Store[ecfg.TableName],
                             LAMBDA r : RowSelected(ecfg, options, conditions, r)))

\* searchEntity: err, the rows fetched and the results kept (the rows are
\* answered in the order of the table; OrderBy, GroupBy and Joins are not
\* modelled)
searchEntity(cfg, entityType, ecfg, options) ==
    Find(cfg, entityType, ecfg, options,
         buildSearchConditions(cfg, ecfg.SearchFields, options.Query))

-----------------------------------------------------------------------------
(* sortResults *)

Swap(results, i, j) ==
    [results EXCEPT ![i] = results[j], ![j] = results[i]]

\* the loop over j of sortResults, from j on
RECURSIVE SortInner(_, _, _)
SortInner(results, i, j) ==
    IF j > Len(results) THEN results
    ELSE SortInner(IF results[i].Score < results[j].Score
                   THEN Swap(results, i, j) ELSE results, i, j + 1)

\* the loop over i of sortResults, from i on
RECURSIVE SortOuter(_, _)
SortOuter(results, i) ==
    IF i > Len(results) - 1 THEN results
    ELSE SortOuter(SortInner(results, i, i + 1), i + 1)

sortResults(results, options) ==
    IF options.SortBy = "" \/ options.SortBy = "score"
    THEN SortOuter(results, 1)
    ELSE results

-----------------------------------------------------------------------------
(* Search *)

\* the loop of Search ending at the first query that fails
SearchLoopEndingAtFailure(cfg, ents, options, entityTypes) ==
    LET known == {i \in DOMAIN entityTypes : entityTypes[i] \in DOMAIN ents}
        names == {entityTypes[i] : i \in known}
    IN  The({ LET before == {i \in known : \A j \in known : j <= i => ~found[entityTypes[j]].err}
                  done == {entityTypes[i] : i \in before}
              IN  [allResults |-> Concat([i \in DOMAIN entityTypes |->
                                     IF i \in before
                                     THEN found[entityTypes[i]].results ELSE <<>>]),
                   categories |-> [n \in done |-> Len(found[n].results)],
                   queried    |-> SelectSeq(entityTypes, LAMBDA n : n \in names),
                   failed     |-> names \ done,
                   fetched    |-> [n \in done |->
                                     {found[n].rows[k].id : k \in DOMAIN found[n].rows}]]
              : found \in { [n \in names |-> searchEntity(cfg, n, ents[n], options)] } })

\* the loop of Search ending at the first name that is not registered
SearchLoopEndingAtUnknown(cfg, ents, options, entityTypes) ==
    LET known == {i \in DOMAIN entityTypes :
                     \A j \in DOMAIN entityTypes : j <= i => entityTypes[j] \in DOMAIN ents}
        names == {entityTypes[i] : i \in known}
    IN  The({ LET done == {n \in names : ~found[n].err}
              IN  [allResults |-> Concat([i \in DOMAIN entityTypes |->
                                     IF i \in known /\ entityTypes[i] \in done
                                     THEN found[entityTypes[i]].results ELSE <<>>]),
                   categories |-> [n \in done |-> Len(found[n].results)],
                   queried    |-> SelectSeq(entityTypes, LAMBDA n : n \in names),
                   failed     |-> names \ done,
                   fetched    |-> [n \in done |->
                                     {found[n].rows[k].id : k \in DOMAIN found[n].rows}]]
              : found \in { [n \in names |-> searchEntity(cfg, n, ents[n], options)] } })

\* the loop of Search over entityTypes: allResults and categories as the
\* loop leaves them, and the history of the searchEntity calls it made
SearchLoop(cfg, ents, options, entityTypes) ==
    LET known == {i \in DOMAIN entityTypes : entityTypes[i] \in DOMAIN ents}
        names == {entityTypes[i] : i \in known}
    IN  The({ LET done == {n \in names : ~found[n].err}
              IN  [allResults |-> Concat([i \in DOMAIN entityTypes |->
                                     IF i \in known /\ entityTypes[i] \in done
                                     THEN found[entityTypes[i]].results ELSE <<>>]),
                   categories |-> [n \in done |-> Len(found[n].results)],
                   queried    |-> SelectSeq(entityTypes, LAMBDA n : n \in names),
                   failed     |-> names \ done,
                   fetched    |-> [n \in done |->
                                     {found[n].rows[k].id : k \in DOMAIN found[n].rows}]]
              : found \in { [n \in names |-> searchEntity(cfg, n, ents[n], options)] } })

EmptyProbe ==
    [queried |-> <<>>, failed |-> {}, fetched |-> <<>>, merged |-> <<>>, sorted |-> <<>>, limit |-> 0]

\* Search without its default limits
LimitAsGiven(cfg, options) == options.Limit

\* the limit Search works with
EffectiveLimit(cfg, options) ==
    IF options.Limit <= 0 \/ options.Limit > cfg.MaxResults
    THEN cfg.MaxResults ELSE options.Limit

\* allResults[options.Offset:end] panics on these bounds
SliceOutOfRange(offset, end, total) == offset < 0 \/ end < offset \/ end > total

\* the pagination of Search: total, the page and the categories of the
\* merged and sorted list
Paginate(options, limit, loop, sorted) ==
    LET total == Len(sorted)
        end == IF options.Offset + limit > total THEN total ELSE options.Offset + limit
        history == [queried |-> loop.queried, failed |-> loop.failed,
                    fetched |-> loop.fetched, merged |-> loop.allResults,
                    sorted |-> sorted, limit |-> limit]
    IN  IF options.Offset >= total
        THEN [outcome |-> "ok", Total |-> total, Results |-> <<>>,
              Categories |-> loop.categories, probe |-> history]
        ELSE IF SliceOutOfRange(options.Offset, end, total)
             THEN [outcome |-> "panic", Total |-> 0, Results |-> <<>>,
                   Categories |-> <<>>, probe |-> history]
             ELSE [outcome |-> "ok", Total |-> total,
                   Results |-> SubSeq(sorted, options.Offset + 1, end),
                   Categories |-> loop.categories, probe |-> history]

\* Search without its test of the query's length
LengthUnchecked(cfg, query) == FALSE

\* the query is shorter than MinSearchLength
TooShort(cfg, query) == Len(TrimSpace(query)) < cfg.MinSearchLength

\* Search: the outcome ("ok" with a SearchResponse, or "panic") and the
\* history of the call.  order is the iteration order of the registry map.
Search(cfg, ents, options, order) ==
    IF TooShort(cfg, options.Query)
    THEN [outcome |-> "ok", Total |-> 0, Results |-> <<>>, Categories |-> <<>>,
          probe |-> EmptyProbe]
    ELSE \* the loop, the sort and the slice
         The({ Paginate(options, EffectiveLimit(cfg, options), loop,
                        sortResults(loop.allResults, options)) :
               loop \in { SearchLoop(cfg, ents, options,
                             IF Len(options.EntityTypes) = 0 THEN order
                             ELSE options.EntityTypes) } })


-----------------------------------------------------------------------------
(* Callers and request inputs *)

\* the users AuthMiddleware can put in the request context
Users ==
    { [ID |-> 1, TenantID |-> 1, Role |-> "admin"],
      [ID |-> 2, TenantID |-> 2, Role |-> "user"],
      [ID |-> 3, TenantID |-> 1, Role |-> "super-admin"] }

\* a request without a valid bearer token
Anonymous == [ID |-> Nil, TenantID |-> Nil, Role |-> ""]

MaxOffset == 2
MaxLimit == 3

Queries ==
    { <<>>,
      <<"a">>,
      <<" ", "a", " ">>,
      <<"a", " ", "c">>,
      <<"a", "c">>,
      acme,
      Acme,
      <<"c", "m", "e", "a">>,
      <<"w", "i", "d", "g", "e", "t">> }

TypeLists ==
    { <<>>,
      <<"plans", "widgets">>,
      <<"widgets", "nosuch", "users">>,
      <<"nosuch">>,
      <<"widgets", "widgets">> }

EntityNames == {"users", "plans", "widgets", "nosuch"}

FilterMaps == { <<>>, [organization_id |-> 1] }

SortBys == {"", "name"}

Offsets == (0 - 1)..MaxOffset

Limits == {0, 1, MaxLimit}

\* the orders in which a range over a map with these keys can run
Orders(keys) ==
    {o \in [1..Cardinality(keys) -> keys] : \A i, j \in DOMAIN o : i # j => o[i] # o[j]}

\* bodies of PUT /admin/search/config
ConfigUpdates ==
    { DefaultFuzzySearchConfig,
      \* the empty JSON object
      [MinSearchLength |-> 0, MaxResults |-> 0, ScoreThreshold |-> 0,
       EnableHighlight |-> FALSE, CaseSensitive |-> FALSE,
       ExactMatchBoost |-> 0, PrefixMatchBoost |-> 0],
      [MinSearchLength |-> 3, MaxResults |-> 0 - 1, ScoreThreshold |-> 0 - 5,
       EnableHighlight |-> TRUE, CaseSensitive |-> FALSE,
       ExactMatchBoost |-> 0 - 10, PrefixMatchBoost |-> 15],
      [MinSearchLength |-> 1, MaxResults |-> 2, ScoreThreshold |-> 1,
       EnableHighlight |-> TRUE, CaseSensitive |-> FALSE,
       ExactMatchBoost |-> 20, PrefixMatchBoost |-> 15],
      [MinSearchLength |-> 2, MaxResults |-> 50, ScoreThreshold |-> 1,
       EnableHighlight |-> TRUE, CaseSensitive |-> TRUE,
       ExactMatchBoost |-> 20, PrefixMatchBoost |-> 15],
      [MinSearchLength |-> 2, MaxResults |-> 50, ScoreThreshold |-> 12,
       EnableHighlight |-> FALSE, CaseSensitive |-> FALSE,
       ExactMatchBoost |-> 10, PrefixMatchBoost |-> 10] }

\* bodies of POST /admin/search/entities/:entity_type
WidgetsByTitle ==
    Entity("widgets", << Field("title", 10, "contains", 0, 0) >>, <<>>, "",
           Permissions(FALSE, "", ""))
WidgetsOfOwner ==
    Entity("widgets", << Field("title", 10, "exact", 0 - 20, 3) >>, <<"id", "title">>,
           "active = true", Permissions(TRUE, "user_id", "organization_id"))
WidgetsDiscounted ==
    Entity("widgets", << Field("title", 0 - 2, "contains", 0, 0) >>, <<>>, "",
           Permissions(TRUE, "", "organization_id"))
PlansByName ==
    Entity("plans", << Field("name", 10, "fuzzy", 0, 0),
                       Field("description", 5, "fulltext", 5, 5) >>,
           <<"id", "name">>, "active = true", Permissions(FALSE, "", ""))
NoTable ==
    Entity("", << Field("title", 10, "contains", 0, 0) >>, <<>>, "",
           Permissions(FALSE, "", ""))
NoFields == Entity("widgets", <<>>, <<>>, "", Permissions(FALSE, "", ""))

\* the registrations asked for: the :entity_type of the path and the body
Registrations ==
    { <<"widgets", WidgetsByTitle>>, <<"widgets", WidgetsOfOwner>>,
      <<"widgets", WidgetsDiscounted>>, <<"plans", PlansByName>>,
      <<"widgets", NoTable>>, <<"widgets", NoFields>>, <<"", WidgetsByTitle>> }

-----------------------------------------------------------------------------
(* Goroutines *)

\* net/http serves every request in a goroutine of its own; all of them call
\* the one FuzzySearchService that SetupRouter constructs
MaxGoroutines == 2
Goroutines == 1..MaxGoroutines

\* a goroutine inside a method of the service, in the middle of a read or a
\* write of object ("entities", "config") at a line of the service; arg is
\* what a write is about to store
Access(method, object, kind, line, arg) ==
    [method |-> method, object |-> object, kind |-> kind, line |-> line, arg |-> arg]

\* a goroutine that is in no method of the service
Parked == Access("", "", "", 0, <<>>)

-----------------------------------------------------------------------------
(* Accounts and tokens *)

\* the lifetime of a token: 24 hours, in seconds
TokenTTL == 24 * 3600

\* the clock runs from 0 to the expiry of a token issued at 0, and
\* MaxSeconds beyond
MaxSeconds == 1
Horizon == TokenTTL + MaxSeconds

\* the tenants table after Seed
Tenants == {1}

\* bcrypt.GenerateFromPassword (the salt is left out: a hash is compared
\* with passwords only) and bcrypt.CompareHashAndPassword
Hash(password) == <<"bcrypt", password>>
CompareHashAndPassword(hash, password) == hash = Hash(password)

\* a row of users
Account(username, email, passwordHash, role, tenantID, active) ==
    [Username |-> username, Email |-> email, PasswordHash |-> passwordHash,
     Role |-> role, TenantID |-> tenantID, Active |-> active]

\* the users table after Seed
SeedAccounts ==
    << Account("testuser", "testuser@example.com", Hash("newpass123"), "admin", 1, TRUE) >>

\* GenerateJWT at second t: the claims, which determine the signed string
GenerateJWT(userID, tenantID, role, t) ==
    [UserID |-> userID, TenantID |-> tenantID, Role |-> role,
     ID |-> <<userID, t>>, ExpiresAt |-> t + TokenTTL, IssuedAt |-> t, NotBefore |-> t]

\* a request without Authorization header, or with a string no GenerateJWT
\* signed
NoToken == GenerateJWT(Nil, Nil, "", 0 - TokenTTL)

\* ValidateJWT at second t
ValidateJWT(token, t) ==
    /\ token # NoToken
    /\ t < token.ExpiresAt
    /\ t >= token.NotBefore

\* ParseTokenClaims
ParseTokenClaims(token) == <<token.ID, token.ExpiresAt>>

\* a row of token_blacklist
TokenBlacklist(tokenID, userID, expiresAt) ==
    [TokenID |-> tokenID, UserID |-> userID, ExpiresAt |-> expiresAt]

\* AuthMiddleware without its look at the blacklist
BlacklistUnchecked(list, token, t) == FALSE

\* AuthMiddleware: token_id = ? AND expires_at > NOW() finds a row
Blacklisted(list, token, t) ==
    \E b \in list : b.TokenID = token.ID /\ b.ExpiresAt > t

\* AuthMiddleware: the status it aborts the request with, or 0 when it sets
\* the user and passes the request on
AuthMiddleware(users, list, token, t) ==
    IF token = NoToken THEN 401
    ELSE IF ~ValidateJWT(token, t) THEN 401
    ELSE IF Blacklisted(list, token, t) THEN 401
    ELSE IF token.UserID \notin DOMAIN users THEN 401
    ELSE IF ~users[token.UserID].Active THEN 401
    ELSE IF users[token.UserID].TenantID # token.TenantID THEN 401
    ELSE 0

-----------------------------------------------------------------------------
(* Requests and responses *)

NoOptions == SearchOptions(<<>>, <<>>, <<>>, "", 0, 0, Nil, Nil)

Request(route, caller, options, entityType, body) ==
    [route |-> route, caller |-> caller, options |-> options,
     entityType |-> entityType, body |-> body]

NoRequest == Request("", Anonymous, NoOptions, "", <<>>)

\* a response without a search body
Status(code) ==
    [status |-> code, Total |-> 0, Results |-> <<>>, Categories |-> <<>>,
     EntityTypes |-> <<>>]

NoResponse == Status(0)

\* a call of a function of the service: its arguments and what it returns
Call(method, cfg, fields, row, query, out) ==
    [method |-> method, cfg |-> cfg, fields |-> fields, row |-> row, query |-> query,
     out |-> out]

NoCall == Call("", <<>>, <<>>, <<>>, <<>>, <<>>)

\* what a search handler writes for the outcome of Search (a panic is
\* recovered by gin.Default's Recovery middleware)
SearchReply(r) ==
    IF r.outcome = "panic" THEN Status(500)
    ELSE [status |-> 200, Total |-> r.Total, Results |-> r.Results,
          Categories |-> r.Categories, EntityTypes |-> <<>>]

Init ==
    /\ entities = RegisterDefaultEntities
    /\ config = DefaultFuzzySearchConfig
    /\ lastRegistered = [n \in {"users", "plans"} |->
                            IF n = "users" THEN UsersConfig ELSE PlansConfig]
    /\ pc = "idle"
    /\ req = NoRequest
    /\ resp = NoResponse
    /\ probe = EmptyProbe
    /\ goroutines = [g \in Goroutines |-> Parked]
    /\ fatal = FALSE
    /\ accounts = SeedAccounts
    /\ blacklist = {}
    /\ now = 0
    /\ logins = <<>>
    /\ revoked = {}
    /\ registered = <<>>
    /\ call = NoCall

\* the handler has written its response
Answer(request, response, history) ==
    /\ pc' = "responded"
    /\ req' = request
    /\ resp' = response
    /\ probe' = history


-----------------------------------------------------------------------------
(* Middleware *)

\* RequireRole
RequireRole(user, requiredRoles) == user.Role \in requiredRoles

\* RequireAdmin letting every role pass
RequireAnyRole(user) == RequireRole(user, {"admin", "super-admin", "user"})

\* RequireAdmin
RequireAdmin(user) == RequireRole(user, {"admin", "super-admin"})

\* the routes of the protected group and of the admin group
ProtectedRoutes == {"search", "searchInEntity"}
AdminRoutes == {"updateConfig", "registerEntity"}

\* AuthMiddleware aborts a request without a valid token with 401
Unauthorized ==
    /\ pc = "idle"
    /\ \E route \in ProtectedRoutes \cup AdminRoutes :
          Answer(Request(route, Anonymous, NoOptions, "", <<>>), Status(401), EmptyProbe)
    /\ UNCHANGED <<entities, config, lastRegistered, raceVars, authVars, call>>

\* RequireAdmin aborts the request of a caller of another role with 403
Forbidden ==
    /\ pc = "idle"
    /\ \E route \in AdminRoutes, user \in Users :
          /\ ~RequireAdmin(user)
          /\ Answer(Request(route, user, NoOptions, "", <<>>), Status(403), EmptyProbe)
    /\ UNCHANGED <<entities, config, lastRegistered, raceVars, authVars, call>>

-----------------------------------------------------------------------------
(* Search handlers *)

\* the iteration orders that matter to a Search with these entity types
MapOrders(entityTypes) ==
    IF Len(entityTypes) = 0 THEN Orders(DOMAIN entities) ELSE {<<>>}

\* QuickSearch: the options built from the query parameters (an absent or
\* unparsable number is any number the parameter's test refuses)
QuickSearchOptions(q, types, limitParam, offsetParam) ==
    SearchOptions(q, types, <<>>, "",
                  IF offsetParam >= 0 THEN offsetParam ELSE 0,
                  IF limitParam > 0 THEN limitParam ELSE 10,
                  Nil, Nil)

\* QuickSearch writing the limit of the request into the shared config
QuickSearchWritingConfig ==
    /\ pc = "idle"
    /\ \E q \in Queries, types \in TypeLists, limitParam \in Limits, offsetParam \in Offsets :
          LET options == QuickSearchOptions(q, types, limitParam, offsetParam)
              request == Request("quick", Anonymous, options, "", <<>>)
          IN  IF q = <<>>
              THEN Answer(request, Status(400), EmptyProbe) /\ config' = config
              ELSE \E order \in MapOrders(types) :
                      \E r \in {Search(config, entities, options, order)} :
                          /\ Answer(request, SearchReply(r), r.probe)
                          /\ config' = [config EXCEPT !.MaxResults = r.probe.limit]
    /\ UNCHANGED <<entities, lastRegistered, raceVars, authVars, call>>

\* GET /search/quick (public: no middleware sets "user")
QuickSearch ==
    /\ pc = "idle"
    /\ \E q \in Queries, types \in TypeLists, limitParam \in Limits, offsetParam \in Offsets :
          LET options == QuickSearchOptions(q, types, limitParam, offsetParam)
              request == Request("quick", Anonymous, options, "", <<>>)
          IN  IF q = <<>>
              THEN Answer(request, Status(400), EmptyProbe)
              ELSE \E order \in MapOrders(types) :
                      \E r \in {Search(config, entities, options, order)} :
                          Answer(request, SearchReply(r), r.probe)
    /\ UNCHANGED <<entities, config, lastRegistered, raceVars, authVars, call>>

\* Search and SearchInEntity: the options built from the bound SearchRequest
\* and the user of the request context
HandlerOptions(user, q, types, filters, sortBy, offset, limit) ==
    SearchOptions(q, types, filters, sortBy, offset, limit, user.ID, user.TenantID)

\* POST /search (protected)
SearchHandler ==
    /\ pc = "idle"
    /\ \E user \in Users, q \in Queries, types \in TypeLists, filters \in FilterMaps,
          sortBy \in SortBys, offset \in Offsets, limit \in Limits :
          LET options == HandlerOptions(user, q, types, filters, sortBy, offset, limit)
              request == Request("search", user, options, "", <<>>)
          IN  IF q = <<>>
              THEN Answer(request, Status(400), EmptyProbe)
              ELSE \E order \in MapOrders(types) :
                      \E r \in {Search(config, entities, options, order)} :
                          Answer(request, SearchReply(r), r.probe)
    /\ UNCHANGED <<entities, config, lastRegistered, raceVars, authVars, call>>

\* POST /search/entities/:entity_type (protected)
SearchInEntity ==
    /\ pc = "idle"
    /\ \E user \in Users, entityType \in EntityNames :
          IF entityType \notin DOMAIN entities
          THEN Answer(Request("searchInEntity", user, NoOptions, entityType, <<>>),
                      Status(400), EmptyProbe)
          ELSE \E q \in Queries, filters \in FilterMaps, sortBy \in SortBys,
                  offset \in Offsets, limit \in Limits :
                  LET options == HandlerOptions(user, q, <<entityType>>, filters,
                                                sortBy, offset, limit)
                      request == Request("searchInEntity", user, options, entityType, <<>>)
                  IN  IF q = <<>>
                      THEN Answer(request, Status(400), EmptyProbe)
                      ELSE \E r \in {Search(config, entities, options, <<>>)} :
                              Answer(request, SearchReply(r), r.probe)
    /\ UNCHANGED <<entities, config, lastRegistered, raceVars, authVars, call>>

\* GET /search/types (public)
GetEntityTypes ==
    /\ pc = "idle"
    /\ Answer(Request("types", Anonymous, NoOptions, "", <<>>),
              [Status(200) EXCEPT !.EntityTypes =
                  [n \in DOMAIN entities |->
                      [Name |-> n,
                       SearchFields |-> [i \in DOMAIN entities[n].SearchFields |->
                                            entities[n].SearchFields[i].Name],
                       RequireAuth |-> entities[n].Permissions.RequireAuth]]],
              EmptyProbe)
    /\ UNCHANGED <<entities, config, lastRegistered, raceVars, authVars, call>>

-----------------------------------------------------------------------------
(* Admin handlers *)

\* UpdateSearchConfig without the validation of the threshold
ClampWithoutThreshold(configUpdate) ==
    [configUpdate EXCEPT
        !.MinSearchLength = IF @ < 1 THEN 1 ELSE @,
        !.MaxResults      = IF @ <= 0 THEN 50 ELSE @]

\* UpdateSearchConfig without the validation of MaxResults
ClampWithoutMaxResults(configUpdate) ==
    [configUpdate EXCEPT
        !.MinSearchLength = IF @ < 1 THEN 1 ELSE @,
        !.ScoreThreshold  = IF @ < 0 THEN 0 ELSE @]

\* the validation of UpdateSearchConfig
ClampConfig(configUpdate) ==
    [configUpdate EXCEPT
        !.MinSearchLength = IF @ < 1 THEN 1 ELSE @,
        !.MaxResults      = IF @ <= 0 THEN 50 ELSE @,
        !.ScoreThreshold  = IF @ < 0 THEN 0 ELSE @]

\* FuzzySearchService.UpdateConfig
UpdateConfig(old, new) == new

\* PUT /admin/search/config
UpdateSearchConfig ==
    /\ pc = "idle"
    /\ \E user \in Users, configUpdate \in ConfigUpdates :
          /\ RequireAdmin(user)
          /\ config' = UpdateConfig(config, ClampConfig(configUpdate))
          /\ Answer(Request("updateConfig", user, NoOptions, "", configUpdate),
                    Status(200), EmptyProbe)
    /\ UNCHANGED <<entities, lastRegistered, raceVars, authVars, call>>

\* RegisterCustomEntity without the test of the search fields
StatusWithoutFieldsTest(entityType, body) ==
    IF entityType = "" THEN 400
    ELSE IF body.TableName = "" THEN 400
    ELSE 200

\* the validation of RegisterCustomEntity: the status it answers
RegistrationStatus(entityType, body) ==
    IF entityType = "" THEN 400
    ELSE IF body.TableName = "" THEN 400
    ELSE IF Len(body.SearchFields) = 0 THEN 400
    ELSE 200

\* POST /admin/search/entities/:entity_type
RegisterCustomEntity ==
    /\ pc = "idle"
    /\ \E user \in Users, registration \in Registrations :
          /\ RequireAdmin(user)
          /\ LET entityType == registration[1]
                 body == registration[2]
                 code == RegistrationStatus(entityType, body)
             IN  /\ entities' = IF code = 200
                                THEN RegisterEntity(entities, entityType, body)
                                ELSE entities
                 /\ lastRegistered' = IF code = 200
                                      THEN [n \in DOMAIN lastRegistered \cup {entityType} |->
                                               IF n = entityType THEN body
                                               ELSE lastRegistered[n]]
                                      ELSE lastRegistered
                 /\ Answer(Request("registerEntity", user, NoOptions, entityType, body),
                           Status(code), EmptyProbe)
    /\ UNCHANGED <<config, raceVars, authVars, call>>

\* the response is sent and the request is over
Complete ==
    /\ pc = "responded"
    /\ pc' = "idle"
    /\ req' = NoRequest
    /\ resp' = NoResponse
    /\ probe' = EmptyProbe
    /\ UNCHANGED <<entities, config, lastRegistered, raceVars, authVars, call>>

Next ==
    \/ Unauthorized
    \/ Forbidden
    \/ QuickSearch
    \/ SearchHandler
    \/ SearchInEntity
    \/ GetEntityTypes
    \/ UpdateSearchConfig
    \/ RegisterCustomEntity
    \/ Complete

Spec == Init /\ [][Next]_vars


-----------------------------------------------------------------------------
(* Authentication handlers *)

\* the users table holds at most MaxAccounts rows, and GenerateJWT is called
\* at most MaxLogins times
MaxAccounts == 2
MaxLogins == 2

\* request inputs (a username is any non-empty string)
Usernames == {"ann", "testuser", "testuser@example.com"}
Emails == {"ann@example.com", "testuser@example.com"}
Passwords == {"newpass123", "password123"}
Roles == {"", "admin"}
TenantIDs == {1, 2}

\* the tokens a client can present: those issued, or none
Presentable == SeqToSet(logins) \cup {NoToken}

AuthRequest(route, token, body) == [route |-> route, token |-> token, body |-> body]
AuthReply(code, token) == [status |-> code, Token |-> token]

\* the handler has written its response
AuthAnswer(request, response) ==
    /\ pc' = "responded"
    /\ req' = request
    /\ resp' = response
    /\ UNCHANGED <<searchVars, probe, raceVars, call>>

\* Where("username = ? OR email = ?", username, email).First(&user): the id
\* of the first row in the order of the primary key, 0 when there is none
FirstUser(users, username, email) ==
    LET found == {id \in DOMAIN users :
                     users[id].Username = username \/ users[id].Email = email}
    IN  IF found = {} THEN 0 ELSE CHOOSE id \in found : \A other \in found : id <= other

\* the status Register answers
RegisterStatus(users, body) ==
    IF FirstUser(users, body.Username, body.Email) # 0 THEN 409
    ELSE IF body.TenantID \notin Tenants THEN 400
    ELSE 201

\* POST /auth/register (public)
Register ==
    /\ pc = "idle"
    /\ Len(accounts) < MaxAccounts
    /\ \E username \in Usernames, email \in Emails, password \in Passwords,
          role \in Roles, tenantID \in TenantIDs :
          LET body == [Username |-> username, Email |-> email, Password |-> password,
                       Role |-> role, TenantID |-> tenantID]
              code == RegisterStatus(accounts, body)
          IN  /\ accounts' =
                    IF code = 201
                    THEN Append(accounts,
                                Account(username, email, Hash(password),
                                        IF role = "" THEN "user" ELSE role, tenantID, TRUE))
                    ELSE accounts
              /\ registered' =
                    IF code = 201
                    THEN Append(registered,
                                [ID |-> Len(accounts) + 1, Username |-> username,
                                 Email |-> email, Password |-> password])
                    ELSE registered
              /\ AuthAnswer(AuthRequest("register", NoToken, body), AuthReply(code, NoToken))
    /\ UNCHANGED <<blacklist, now, logins, revoked>>

\* POST /auth/login (public)
Login ==
    /\ pc = "idle"
    /\ Len(logins) < MaxLogins
    /\ \E name \in Usernames \cup Emails, password \in Passwords :
          LET id == FirstUser(accounts, name, name)
              ok == /\ id # 0
                    /\ accounts[id].Active
                    /\ CompareHashAndPassword(accounts[id].PasswordHash, password)
              token == IF ok
                       THEN GenerateJWT(id, accounts[id].TenantID, accounts[id].Role, now)
                       ELSE NoToken
          IN  /\ logins' = IF ok THEN Append(logins, token) ELSE logins
              /\ AuthAnswer(AuthRequest("login", NoToken,
                                        [Username |-> name, Password |-> password]),
                            AuthReply(IF ok THEN 200 ELSE 401, token))
    /\ UNCHANGED <<accounts, blacklist, now, revoked, registered>>

\* POST /auth/logout (protected)
Logout ==
    /\ pc = "idle"
    /\ \E token \in Presentable :
          LET aborted == AuthMiddleware(accounts, blacklist, token, now)
              claims == ParseTokenClaims(token)
              blacklistEntry == TokenBlacklist(claims[1], token.UserID, claims[2])
              \* the unique index on token_id
              duplicate == \E b \in blacklist : b.TokenID = blacklistEntry.TokenID
              code == IF aborted # 0 THEN aborted ELSE IF duplicate THEN 500 ELSE 200
          IN  /\ blacklist' = IF code = 200 THEN blacklist \cup {blacklistEntry} ELSE blacklist
              /\ revoked' = IF code = 200 THEN revoked \cup {token} ELSE revoked
              /\ AuthAnswer(AuthRequest("logout", token, <<>>), AuthReply(code, NoToken))
    /\ UNCHANGED <<accounts, now, logins, registered>>

\* POST /auth/change-password (protected)
ChangePassword ==
    /\ pc = "idle"
    /\ \E token \in Presentable, current \in Passwords, new \in Passwords :
          LET aborted == AuthMiddleware(accounts, blacklist, token, now)
              code == IF aborted # 0 THEN aborted
                      ELSE IF ~CompareHashAndPassword(accounts[token.UserID].PasswordHash,
                                                      current)
                           THEN 400 ELSE 200
          IN  /\ accounts' = IF code = 200
                             THEN [accounts EXCEPT ![token.UserID].PasswordHash = Hash(new)]
                             ELSE accounts
              /\ AuthAnswer(AuthRequest("changePassword", token,
                                        [CurrentPassword |-> current, NewPassword |-> new]),
                            AuthReply(code, NoToken))
    /\ UNCHANGED <<blacklist, now, logins, revoked, registered>>

\* GET /auth/me (protected)
Me ==
    /\ pc = "idle"
    /\ \E token \in Presentable :
          LET aborted == AuthMiddleware(accounts, blacklist, token, now)
          IN  AuthAnswer(AuthRequest("me", token, <<>>),
                         AuthReply(IF aborted # 0 THEN aborted ELSE 200, NoToken))
    /\ UNCHANGED authVars

\* time passes between two requests: a second (MaxSeconds times in a row at
\* most), or the lifetime of a token
Advance ==
    /\ pc = "idle"
    /\ \E seconds \in {1, TokenTTL} :
          /\ now + seconds <= Horizon
          /\ seconds = 1 => now % TokenTTL < MaxSeconds
          /\ now' = now + seconds
    /\ UNCHANGED <<accounts, blacklist, logins, revoked, registered>>
    /\ UNCHANGED <<searchVars, pc, req, resp, probe, raceVars, call>>

\* the routes of the group /auth behind AuthMiddleware
AuthenticatedRoutes == {"logout", "changePassword", "me"}

AuthNext ==
    \/ Register
    \/ Login
    \/ Logout
    \/ ChangePassword
    \/ Me
    \/ Advance
    \/ Complete

AuthSpec == Init /\ [][AuthNext]_vars

-----------------------------------------------------------------------------
(* Concurrent requests *)

\* two goroutines are at the same object and one of them writes it
Racing(g, h) ==
    /\ g # h
    /\ goroutines[g].object # ""
    /\ goroutines[g].object = goroutines[h].object
    /\ "write" \in {goroutines[g].kind, goroutines[h].kind}

\* goroutine g moves to its next access; nothing else of the service changes
GoTo(g, access) ==
    /\ ~fatal
    /\ goroutines' = [goroutines EXCEPT ![g] = access]
    /\ UNCHANGED <<fatal, pc, req, resp, probe, authVars, call>>

\* Search is called and reads s.config.MinQueryLength
GoSearch ==
    \E g \in Goroutines :
        /\ goroutines[g] = Parked
        /\ GoTo(g, Access("Search", "config", "read", 881, <<>>))
        /\ UNCHANGED searchVars

\* Search ranges over s.entities, or looks a listed entity type up in it
GoSearchEntities ==
    \E g \in Goroutines, line \in {893, 908} :
        /\ goroutines[g].method = "Search"
        /\ goroutines[g].line = 881
        /\ GoTo(g, Access("Search", "entities", "read", line, <<>>))
        /\ UNCHANGED searchVars

\* searchEntity and the scorers read s.config
GoSearchEntity ==
    \E g \in Goroutines :
        /\ goroutines[g].method = "Search"
        /\ goroutines[g].object = "entities"
        /\ GoTo(g, Access("searchEntity", "config", "read", 1018, <<>>))
        /\ UNCHANGED searchVars

\* GetEntityTypes hands out s.entities itself, and the handler ranges over it
GoGetEntityTypes ==
    \E g \in Goroutines :
        /\ goroutines[g] = Parked
        /\ GoTo(g, Access("GetEntityTypes", "entities", "read", 1369, <<>>))
        /\ UNCHANGED searchVars

\* GetConfig copies s.config
GoGetConfig ==
    \E g \in Goroutines :
        /\ goroutines[g] = Parked
        /\ GoTo(g, Access("GetConfig", "config", "read", 1374, <<>>))
        /\ UNCHANGED searchVars

\* RegisterEntity is called by RegisterCustomEntity with a valid registration
\* and starts to assign into the map
GoRegisterEntity ==
    \E g \in Goroutines, registration \in Registrations :
        /\ goroutines[g] = Parked
        /\ RegistrationStatus(registration[1], registration[2]) = 200
        /\ GoTo(g, Access("RegisterEntity", "entities", "write", 780, registration))
        /\ UNCHANGED searchVars

\* UpdateConfig is called by UpdateSearchConfig and starts to assign s.config
GoUpdateConfig ==
    \E g \in Goroutines, configUpdate \in ConfigUpdates :
        /\ goroutines[g] = Parked
        /\ GoTo(g, Access("UpdateConfig", "config", "write", 1379, ClampConfig(configUpdate)))
        /\ UNCHANGED searchVars

\* the access of a goroutine is over and its method returns; a write is in
\* the object from then on
GoReturn ==
    \E g \in Goroutines :
        LET access == goroutines[g]
        IN  /\ access.method \in {"searchEntity", "GetEntityTypes", "GetConfig",
                                  "RegisterEntity", "UpdateConfig"}
            /\ entities' = IF access.method = "RegisterEntity"
                           THEN RegisterEntity(entities, access.arg[1], access.arg[2])
                           ELSE entities
            /\ lastRegistered' =
                  IF access.method = "RegisterEntity"
                  THEN [n \in DOMAIN lastRegistered \cup {access.arg[1]} |->
                           IF n = access.arg[1] THEN access.arg[2] ELSE lastRegistered[n]]
                  ELSE lastRegistered
            /\ config' = IF access.method = "UpdateConfig"
                         THEN UpdateConfig(config, access.arg)
                         ELSE config
            /\ GoTo(g, Parked)

\* the Go runtime may detect a map that is read or written while it is
\* written, and then ends the process ("concurrent map read and map write")
GoFatal ==
    /\ ~fatal
    /\ \E g, h \in Goroutines : Racing(g, h) /\ goroutines[g].object = "entities"
    /\ fatal' = TRUE
    /\ UNCHANGED <<searchVars, goroutines, pc, req, resp, probe, authVars, call>>

RaceNext ==
    \/ GoSearch
    \/ GoSearchEntities
    \/ GoSearchEntity
    \/ GoGetEntityTypes
    \/ GoGetConfig
    \/ GoRegisterEntity
    \/ GoUpdateConfig
    \/ GoReturn
    \/ GoFatal

RaceSpec == Init /\ [][RaceNext]_vars

-----------------------------------------------------------------------------
(* The query builder and the scorer, function by function *)

\* the configs the service can hold: the default, and what UpdateSearchConfig
\* installs
InstallableConfigs ==
    {DefaultFuzzySearchConfig} \cup {ClampConfig(configUpdate) : configUpdate \in ConfigUpdates}

\* a registration of the users with a username that takes part from five
\* characters on
UsersByLongUsername ==
    << Field("first_name", 10, "contains", 0, 0),
       Field("username", 9, "prefix", 5, 5) >>

\* search fields as RegisterDefaultEntities and RegisterCustomEntity store
\* them
ScoredFieldLists ==
    { UsersConfig.SearchFields, PlansConfig.SearchFields, UsersByLongUsername,
      PlansByName.SearchFields,
      WidgetsOfOwner.SearchFields, WidgetsDiscounted.SearchFields }

\* the rows query.Find can answer with
ScoredRows == UNION {SeqToSet(Store[t]) : t \in Tables}

\* the columns of a row that hold text
TextColumns(row) ==
    DOMAIN row \cap {"first_name", "last_name", "username", "name", "description", "title"}

\* everything but call
serviceVars == <<searchVars, pc, req, resp, probe, raceVars, authVars>>

\* buildSearchConditions(fields, searchQuery), as searchEntity calls it
CallBuildSearchConditions ==
    /\ call = NoCall
    /\ \E cfg \in InstallableConfigs, fields \in ScoredFieldLists, query \in Queries :
          call' = Call("buildSearchConditions", cfg, fields, <<>>, query,
                       buildSearchConditions(cfg, fields, query))
    /\ UNCHANGED serviceVars

\* calculateRelevanceScore(fields, row, query), as convertToSearchResult
\* calls it
CallCalculateRelevanceScore ==
    /\ call = NoCall
    /\ \E cfg \in InstallableConfigs, fields \in ScoredFieldLists, row \in ScoredRows,
          query \in Queries :
          call' = Call("calculateRelevanceScore", cfg, fields, row, query,
                       calculateRelevanceScore(cfg, fields, row, query))
    /\ UNCHANGED serviceVars

\* calculateFuzzyScore(fieldValue, termLower), as calculateFieldScore calls it
\* for a term of the query that is neither the value, nor a prefix, nor a
\* part of it; row is the one field value, query the one term
CallCalculateFuzzyScore ==
    /\ call = NoCall
    /\ \E cfg \in InstallableConfigs, row \in ScoredRows, query \in Queries :
          \E column \in TextColumns(row), i \in DOMAIN tokenizeQuery(cfg, query) :
             LET fieldValue == ToLower(row[column])
                 termLower == ToLower(tokenizeQuery(cfg, query)[i])
             IN  /\ fieldValue # <<>>
                 /\ ~Contains(fieldValue, termLower)
                 /\ call' = Call("calculateFuzzyScore", cfg, <<>>, fieldValue, termLower,
                                 calculateFuzzyScore(fieldValue, termLower))
    /\ UNCHANGED serviceVars

\* calculateFieldScore(field, fieldValue, searchTerms), as
\* calculateRelevanceScore calls it for one field of a row; row is the one
\* field value
CallCalculateFieldScore ==
    /\ call = NoCall
    /\ \E cfg \in InstallableConfigs, fields \in ScoredFieldLists, row \in ScoredRows,
          query \in Queries :
          \E i \in DOMAIN fields :
             LET fieldValue == getField(row, fields[i].Name)
             IN  /\ query # <<>>
                 /\ fieldValue # <<>>
                 /\ call' = Call("calculateFieldScore", cfg, <<fields[i]>>, fieldValue, query,
                                 calculateFieldScore(cfg, fields[i], fieldValue,
                                                     tokenizeQuery(cfg, query)))
    /\ UNCHANGED serviceVars

ScorerNext ==
    \/ CallBuildSearchConditions
    \/ CallCalculateRelevanceScore
    \/ CallCalculateFieldScore
    \/ CallCalculateFuzzyScore

ScorerSpec == Init /\ [][ScorerNext]_vars

-----------------------------------------------------------------------------
(* Properties *)

\* a search handler has called Search and answered
SearchAnswered ==
    /\ pc = "responded"
    /\ req.route \in {"quick", "search", "searchInEntity"}
    /\ req.options.Query # <<>>

\* the row of the store behind a result
StoredRow(ref) == CHOOSE r \in SeqToSet(Store[ref.Table]) : r.id = ref.id

\* the elements of list at the positions [offset, offset + limit)
Window(list, offset, limit) ==
    LET lo == IF offset < 0 THEN 0 ELSE offset
        hi == IF offset + limit > Len(list) THEN Len(list) ELSE offset + limit
    IN  IF hi <= lo THEN <<>> ELSE SubSeq(list, lo + 1, hi)

C2_RequireAuthSkipped ==
    (SearchAnswered /\ req.options.UserID = Nil /\ req.options.TenantID = Nil) =>
        /\ \A i \in DOMAIN probe.queried :
              ~entities[probe.queried[i]].Permissions.RequireAuth
        /\ \A i \in DOMAIN resp.Results :
              ~entities[resp.Results[i].Type].Permissions.RequireAuth

\* the effective limit of C3's amended statement
C3_Limit ==
    IF req.options.Limit <= 0 \/ req.options.Limit > config.MaxResults
    THEN config.MaxResults ELSE req.options.Limit

\* list is ordered by descending score
Descending(list) ==
    \A i, j \in DOMAIN list : i < j => list[i].Score >= list[j].Score

\* a and b hold the same elements, each as often
SameElements(a, b) ==
    /\ Len(a) = Len(b)
    /\ \A x \in SeqToSet(a) \cup SeqToSet(b) :
          Cardinality({i \in DOMAIN a : a[i] = x}) = Cardinality({i \in DOMAIN b : b[i] = x})

\* C3 (as stated, for the offsets from 0 on): the returned results are the
\* elements at the positions [offset, offset + limit) of the full sorted list
\* of candidates, and total is the length of that list, for any limit.
C3_PageOfGivenLimit ==
    (SearchAnswered /\ req.options.Offset >= 0) =>
        /\ resp.Results = Window(probe.sorted, req.options.Offset, req.options.Limit)
        /\ resp.Total = Len(probe.sorted)

\* C3 (amended): a Search with a negative offset and a query of at least
\* MinSearchLength panics and is answered with 500; every other Search
\* returns the elements at the positions [offset, offset + L) of the merged
\* list as sortResults leaves it, where L is the limit when
\* 0 < limit <= MaxResults and MaxResults otherwise, and total is the length
\* of that list; the list is in descending order of score when SortBy is ""
\* or "score", and in the order of the merge otherwise.
C3_Pagination ==
    SearchAnswered =>
        /\ resp.status = 500 <=>
              (req.options.Offset < 0 /\ ~TooShort(config, req.options.Query))
        /\ resp.status = 200 =>
              /\ resp.Results = Window(probe.sorted, req.options.Offset, C3_Limit)
              /\ resp.Total = Len(probe.sorted)
              /\ IF req.options.SortBy \in {"", "score"}
                 THEN Descending(probe.sorted) /\ SameElements(probe.sorted, probe.merged)
                 ELSE probe.sorted = probe.merged

\* the second result of three is returned alone, and a limit of 0 returns
\* them all
C3_Witness ==
    /\ SearchAnswered
    /\ resp.status = 200
    /\ Len(probe.sorted) = 3
    /\ \/ req.options.Offset = 1 /\ req.options.Limit = 1 /\ Len(resp.Results) = 1
       \/ req.options.Offset = 0 /\ req.options.Limit = 0 /\ Len(resp.Results) = 3

\* the score searchEntity computes for the row id of entity n
RowScore(n, id) ==
    calculateRelevanceScore(config, entities[n].SearchFields,
        Project(entities[n], StoredRow([Table |-> entities[n].TableName, id |-> id])),
        req.options.Query)

\* C4: a fetched row whose relevance score is below ScoreThreshold is in no
\* result of the Search, and is dropped per entity before the merge: total
\* and categories count only the rows at or above the threshold.
C4_ThresholdExclusion ==
    SearchAnswered =>
        /\ \A i \in DOMAIN probe.merged : probe.merged[i].Score >= Threshold(config)
        /\ \A n \in DOMAIN probe.fetched : \A id \in probe.fetched[n] :
              RowScore(n, id) < Threshold(config) =>
                  /\ \A i \in DOMAIN probe.merged :
                        ~(probe.merged[i].Type = n /\ probe.merged[i].Row.id = id)
                  /\ \A i \in DOMAIN resp.Results :
                        ~(resp.Results[i].Type = n /\ resp.Results[i].Row.id = id)
        /\ resp.status = 200 =>
              /\ resp.Total = Len(probe.merged)
              /\ \A n \in DOMAIN resp.Categories :
                    resp.Categories[n] =
                        Cardinality({id \in probe.fetched[n] :
                                        RowScore(n, id) >= Threshold(config)})

\* a Search fetched a row that scores below the threshold, and kept another
C4_Witness ==
    /\ SearchAnswered
    /\ resp.status = 200
    /\ resp.Results # <<>>
    /\ \E n \in DOMAIN probe.fetched : \E id \in probe.fetched[n] :
          RowScore(n, id) < Threshold(config)

\* C5: every result Search returns has a score of at least 0, for every
\* entity config registered and every config UpdateSearchConfig installs.
C5_NonNegativeScore ==
    SearchAnswered => \A i \in DOMAIN resp.Results : resp.Results[i].Score >= 0

\* under an installed threshold of 0, a Search returns results and has
\* fetched a row of an entity of negative weight, whose score is negative
C5_Witness ==
    /\ SearchAnswered
    /\ resp.Results # <<>>
    /\ config.ScoreThreshold = 0
    /\ \E n \in DOMAIN probe.fetched : \E id \in probe.fetched[n] : RowScore(n, id) < 0

\* C6: a Search whose query is shorter than MinSearchLength returns total 0
\* and no results, without error, and queries no entity, whatever entity
\* types are requested.
C6_ShortQuery ==
    (SearchAnswered /\ Len(req.options.Query) < config.MinSearchLength) =>
        /\ resp.status = 200
        /\ resp.Total = 0
        /\ resp.Results = <<>>
        /\ resp.Categories = <<>>
        /\ probe.queried = <<>>

\* a one-character query for registered entity types is answered
C6_Witness ==
    /\ SearchAnswered
    /\ req.options.Query = <<"a">>
    /\ config.MinSearchLength = 2
    /\ req.options.EntityTypes = <<"plans", "widgets">>
    /\ resp.status = 200

\* the rows of entity n that satisfy the where clause, the tenant filter,
\* the ownership filter, every filter of the caller and at least one
\* predicate of a (field, term) pair
Qualifying(n) ==
    LET ecfg == entities[n]
        options == req.options
        terms == tokenizeQuery(config, options.Query)
        predicates == {buildFieldCondition(config, ecfg.SearchFields[i], terms[j]) :
                          i \in DOMAIN ecfg.SearchFields, j \in DOMAIN terms} \ {NoCondition}
    IN  {r.id : r \in {row \in SeqToSet(Store[ecfg.TableName]) :
            /\ ecfg.WhereClause # "" => row.active
            /\ (options.TenantID # Nil /\ ecfg.Permissions.TenantField # "") =>
                  row[ecfg.Permissions.TenantField] = options.TenantID
            /\ (options.UserID # Nil /\ ecfg.Permissions.OwnershipField # "") =>
                  row[ecfg.Permissions.OwnershipField] = options.UserID
            /\ \A f \in DOMAIN options.Filters : row[f] = options.Filters[f]
            /\ \E c \in predicates : ConditionHolds(c, row)}}

\* C7: the rows an entity contributes to the results are exactly those that
\* satisfy its where clause, the tenant filter, the ownership filter, every
\* filter of the caller and at least one predicate of a (field, term) pair
\* (and, by C4, score at least the threshold).
C7_ContributedRows ==
    SearchAnswered =>
        \A n \in DOMAIN probe.fetched :
            {probe.merged[i].Row.id : i \in {k \in DOMAIN probe.merged : probe.merged[k].Type = n}}
                = {id \in Qualifying(n) : RowScore(n, id) >= Threshold(config)}

\* the example of C7: over the titles 'Blue Widget' and 'Red Gadget' (and
\* others without the term), a search for 'widget' in a 'contains' field
\* returns the first alone, with a score above 0
C7_Witness ==
    /\ SearchAnswered
    /\ req.options.Query = <<"w", "i", "d", "g", "e", "t">>
    /\ req.options.EntityTypes = <<"widgets">>
    /\ Len(entities["widgets"].SearchFields) = 1
    /\ entities["widgets"].SearchFields[1].SearchType = "contains"
    /\ Len(resp.Results) = 1
    /\ StoredRow(resp.Results[1].Row).title = BlueWidget
    /\ resp.Results[1].Score > 0

\* the strength of the match of term in value: 3 exact, 2 prefix,
\* 1 substring, 0 otherwise
MatchRank(value, term) ==
    IF ToLower(value) = ToLower(term) THEN 3
    ELSE IF HasPrefix(ToLower(value), ToLower(term)) THEN 2
    ELSE IF Contains(ToLower(value), ToLower(term)) THEN 1
    ELSE 0

\* field values and terms of C8
ScoredValues == {Acme, acme, AcmePro, Mace, camel, BlueWidget}
ac == <<"a", "c">>
cmea == <<"c", "m", "e", "a">>
ScoredTerms == {ac, acme, Acme, cmea, <<"m", "a", "c">>}

\* the search fields of the registered entities
RegisteredFields ==
    UNION {SeqToSet(entities[n].SearchFields) : n \in DOMAIN entities}

\* C8: when ExactMatchBoost >= PrefixMatchBoost >= 1.0, the field score of a
\* single term is, for one field, at least as high for an exact match as for
\* a prefix match, for a prefix match as for a substring match, and for a
\* substring match as for any fuzzy match.
C8_ScoreMonotonicity ==
    (pc = "idle" /\ config.ExactMatchBoost >= config.PrefixMatchBoost
                 /\ config.PrefixMatchBoost >= Tenth) =>
        \A field \in RegisteredFields :
            \A v1, v2 \in ScoredValues : \A t1, t2 \in ScoredTerms :
                MatchRank(v1, t1) > MatchRank(v2, t2) =>
                    calculateFieldScore(config, field, v1, <<t1>>)
                        >= calculateFieldScore(config, field, v2, <<t2>>)

\* under an installed config with boosts 1.0 and 1.0, and under the boosts
\* 2.0 and 1.5, 'Acme' scores higher for 'acme' than for 'ac' and than for
\* the fuzzy 'cmea'
C8_Witness ==
    /\ pc = "idle"
    /\ config.ExactMatchBoost >= config.PrefixMatchBoost
    /\ config.PrefixMatchBoost >= Tenth
    /\ config # DefaultFuzzySearchConfig
    /\ "widgets" \in DOMAIN entities
    /\ \E field \in RegisteredFields :
          /\ calculateFieldScore(config, field, Acme, <<acme>>)
                >= calculateFieldScore(config, field, Acme, <<ac>>)
          /\ calculateFieldScore(config, field, Acme, <<ac>>)
                > calculateFieldScore(config, field, Acme, <<cmea>>)
          /\ calculateFieldScore(config, field, Acme, <<cmea>>) > 0

\* C9: the registry holds one config per name, the one of the latest
\* registration of that name (registering a name changes no other name),
\* and GetEntityTypes reports each registered name once.
C9_LatestRegistrationWins ==
    /\ DOMAIN entities = DOMAIN lastRegistered
    /\ \A n \in DOMAIN entities : entities[n] = lastRegistered[n]
    /\ (pc = "responded" /\ req.route = "types") =>
          /\ DOMAIN resp.EntityTypes = DOMAIN lastRegistered
          /\ \A n \in DOMAIN resp.EntityTypes : resp.EntityTypes[n].Name = n

\* plans, a default entity, is registered again with another config, next
\* to users and a registered widgets
C9_Witness ==
    /\ pc = "responded"
    /\ req.route = "registerEntity"
    /\ resp.status = 200
    /\ req.entityType = "plans"
    /\ entities["plans"] = req.body
    /\ req.body # PlansConfig
    /\ entities["users"] = UsersConfig
    /\ "widgets" \in DOMAIN entities

\* the body of a registration names no table or no search field
InvalidRegistration(body) == body.TableName = "" \/ Len(body.SearchFields) = 0

\* C10: RegisterCustomEntity rejects a body with an empty table name or
\* without search fields with an error and leaves the registry as it is, so
\* that every registered entity has a table name and a search field.
C10_RegistrationValidation ==
    /\ [](\A n \in DOMAIN entities : ~InvalidRegistration(entities[n]))
    /\ [][(req'.route = "registerEntity" /\ resp'.status \in {200, 400}
              /\ InvalidRegistration(req'.body))
          => (resp'.status = 400 /\ entities' = entities)]_vars

\* a body without search fields, and one without table name, is rejected
C10_Witness ==
    /\ pc = "responded"
    /\ req.route = "registerEntity"
    /\ req.entityType = "widgets"
    /\ resp.status = 400
    /\ Len(req.body.SearchFields) = 0

\* what UpdateSearchConfig installs for a body, by C11
C11_Installed(body) ==
    [body EXCEPT
        !.MinSearchLength = IF body.MinSearchLength < 1 THEN 1 ELSE body.MinSearchLength,
        !.MaxResults      = IF body.MaxResults <= 0 THEN 50 ELSE body.MaxResults,
        !.ScoreThreshold  = IF body.ScoreThreshold < 0 THEN 0 ELSE body.ScoreThreshold]

\* C11: after any sequence of config updates the installed config has
\* MinSearchLength >= 1, MaxResults > 0 and ScoreThreshold >= 0, and an
\* update of an admin is answered 200 and installs its body with an
\* out-of-range value replaced by 1, 50 and 0.
C11_ConfigClamping ==
    /\ config.MinSearchLength >= 1
    /\ config.MaxResults > 0
    /\ config.ScoreThreshold >= 0
    /\ (pc = "responded" /\ req.route = "updateConfig" /\ resp.status \notin {401, 403}) =>
          /\ resp.status = 200
          /\ config = C11_Installed(req.body)

\* an update with MaxResults -1 and a threshold of -0.5 is answered 200 and
\* installs 50 and 0
C11_Witness ==
    /\ pc = "responded"
    /\ req.route = "updateConfig"
    /\ resp.status = 200
    /\ req.body.MaxResults < 0
    /\ req.body.ScoreThreshold < 0
    /\ config.MaxResults = 50
    /\ config.ScoreThreshold = 0

\* the registered entity types a Search with the options of req searches
SearchedNames ==
    IF Len(req.options.EntityTypes) = 0 THEN DOMAIN entities
    ELSE SeqToSet(req.options.EntityTypes) \cap DOMAIN entities

\* C12: when the query of an entity type fails during a Search, the Search
\* returns no error (it answers 200, unless it is the Search of a negative
\* offset, which panics whether a query failed or not), the failed entity
\* contributes no result, and every result of every searched entity type
\* whose query succeeded is in the merged list.
C12_PartialFailure ==
    (SearchAnswered /\ probe.failed # {}) =>
        /\ resp.status = 200 \/ (resp.status = 500 /\ req.options.Offset < 0)
        /\ \A n \in SearchedNames :
              \E r \in {searchEntity(config, n, entities[n], req.options)} :
                  IF r.err
                  THEN /\ n \in probe.failed
                       /\ \A i \in DOMAIN probe.merged : probe.merged[i].Type # n
                  ELSE /\ n \notin probe.failed
                       /\ \A k \in DOMAIN r.results :
                             \E i \in DOMAIN probe.merged : probe.merged[i] = r.results[k]
        /\ resp.status = 200 =>
              /\ resp.Total = Len(probe.merged)
              /\ DOMAIN resp.Categories = SearchedNames \ probe.failed

\* the query of plans, listed first, fails and the widgets listed after it
\* are returned
C12_Witness ==
    /\ SearchAnswered
    /\ resp.status = 200
    /\ req.options.EntityTypes = <<"plans", "widgets">>
    /\ probe.failed = {"plans"}
    /\ \E i \in DOMAIN resp.Results : resp.Results[i].Type = "widgets"

\* the entity types of the options of req that are registered, in the order
\* listed, and whether a listed name is not registered
C13_Kept == SelectSeq(req.options.EntityTypes, LAMBDA n : n \in DOMAIN entities)
C13_UnknownListed == \E i \in DOMAIN req.options.EntityTypes :
                        req.options.EntityTypes[i] \notin DOMAIN entities

\* C13 (as stated, for the Search of an authenticated caller): a Search that
\* lists an unregistered entity type answers what the Search of the same
\* options without that name answers.
C13_AsIfNotListed ==
    (SearchAnswered /\ C13_UnknownListed /\ req.options.UserID # Nil) =>
        \E order \in Orders(DOMAIN entities) :
            \E r \in {Search(config, entities,
                             [req.options EXCEPT !.EntityTypes = C13_Kept], order)} :
                resp = SearchReply(r)

\* C13 (amended): a Search that lists an unregistered entity type returns no
\* error because of it; when a registered name is listed too, results, total
\* and categories are those of the same Search without the unregistered
\* names; when only unregistered names are listed, no entity is searched and
\* total is 0, results and categories are empty.
C13_UnknownSkipped ==
    (SearchAnswered /\ C13_UnknownListed) =>
        /\ resp.status = 200 \/ (resp.status = 500 /\ req.options.Offset < 0)
        /\ IF C13_Kept # <<>>
           THEN \E r \in {Search(config, entities,
                                 [req.options EXCEPT !.EntityTypes = C13_Kept], <<>>)} :
                    resp = SearchReply(r)
           ELSE /\ probe.queried = <<>>
                /\ probe.merged = <<>>
                /\ resp.status = 200 =>
                      resp.Total = 0 /\ resp.Results = <<>> /\ resp.Categories = <<>>

\* widgets, an unregistered name and users are listed, and results of users,
\* listed after the unregistered name, are returned
C13_Witness ==
    /\ SearchAnswered
    /\ resp.status = 200
    /\ req.options.EntityTypes = <<"widgets", "nosuch", "users">>
    /\ \E i \in DOMAIN resp.Results : resp.Results[i].Type = "users"

\* the routes that call Search
SearchRoutes == {"quick", "search", "searchInEntity"}

\* C15: no call of Search writes the entity registry or the config: they
\* are after the call what they were before it, whatever the options and
\* the outcome (a failed entity query, the early return of a short query, a
\* panic).
C15_SearchReadOnly ==
    [][(pc' = "responded" /\ req'.route \in SearchRoutes)
          => (entities' = entities /\ config' = config)]_vars

\* a Search with a failed entity query and a Search of a short query have
\* answered, after a config was installed and an entity registered
C15_Witness ==
    /\ pc = "responded"
    /\ req.route \in SearchRoutes
    /\ req.options.Query # <<>>
    /\ probe.failed # {} \/ TooShort(config, req.options.Query)
    /\ config # DefaultFuzzySearchConfig
    /\ "widgets" \in DOMAIN entities

\* C16: a request to an admin search operation of a caller who is not
\* authenticated, or whose role is neither admin nor super-admin, is rejected
\* (401, 403) and leaves registry and config as they are; registry and config
\* change only in a request of an admin or super-admin to an admin operation.
C16_AdminOnly ==
    /\ []((pc = "responded" /\ req.route \in AdminRoutes
              /\ req.caller.Role \notin {"admin", "super-admin"})
            => resp.status \in {401, 403})
    /\ [][(pc' = "responded" /\ req'.route \in AdminRoutes /\ resp'.status \in {401, 403})
            => (entities' = entities /\ config' = config)]_vars
    /\ [][(entities' # entities \/ config' # config)
            => (/\ req'.route \in AdminRoutes
                /\ req'.caller.Role \in {"admin", "super-admin"}
                /\ resp'.status = 200)]_vars

\* after a super-admin installed a config, the registration of a caller of
\* role user is answered 403
C16_Witness ==
    /\ pc = "responded"
    /\ req.route = "registerEntity"
    /\ req.caller.Role = "user"
    /\ resp.status = 403
    /\ config # DefaultFuzzySearchConfig

\* C20: whatever the sort directive, the results returned are in
\* non-increasing order of score, the order is that of the whole merged list
\* sorted before offset and limit are applied, and the sorted list is a
\* permutation of the merged candidates.
C20_SortedByScore ==
    (SearchAnswered /\ resp.status = 200) =>
        /\ Descending(resp.Results)
        /\ Descending(probe.sorted)
        /\ SameElements(probe.sorted, probe.merged)
        /\ resp.Results = Window(probe.sorted, req.options.Offset, probe.limit)

\* without sort directive, a merged list that was not in order of score is
\* returned in order of score
C20_Witness ==
    /\ SearchAnswered
    /\ resp.status = 200
    /\ req.options.SortBy = ""
    /\ ~Descending(probe.merged)
    /\ Descending(probe.sorted)
    /\ Len(resp.Results) >= 2

\* C17: once a Logout with token T was answered 200, every request to a route
\* behind AuthMiddleware that presents T while T has not expired is answered
\* 401.
C17_BlacklistedRejected ==
    [][(/\ pc = "idle"
        /\ pc' = "responded"
        /\ req'.route \in AuthenticatedRoutes
        /\ req'.token \in revoked
        /\ now < req'.token.ExpiresAt)
          => resp'.status = 401]_vars

\* GET /auth/me presenting a token a Logout has blacklisted, before the token
\* expires, was answered 401 by the check of the blacklist
C17_Witness ==
    /\ pc = "responded"
    /\ req.route = "me"
    /\ req.token \in revoked
    /\ ValidateJWT(req.token, now)
    /\ Blacklisted(blacklist, req.token, now)
    /\ resp.status = 401

\* C18: any two tokens GenerateJWT has issued carry different token IDs, no
\* Logout blacklists a token of another session than the one it ends, and no
\* Logout fails on the unique index of the blacklist.
C18_UniqueTokenIDs ==
    /\ \A i, j \in DOMAIN logins : i # j => logins[i].ID # logins[j].ID
    /\ (pc = "responded" /\ req.route = "logout") => resp.status # 500

\* two logins of different users in the same second got different token IDs
C18_Witness ==
    /\ Len(logins) = 2
    /\ logins[1].IssuedAt = logins[2].IssuedAt
    /\ logins[1].ID # logins[2].ID

\* the accounts a credential was registered for and whose password is the one
\* registered
C19_Unchanged ==
    {r \in SeqToSet(registered) :
        /\ accounts[r.ID].Active
        /\ accounts[r.ID].PasswordHash = Hash(r.Password)}

\* C19: a Login with the username or the e-mail of a registration answered
\* 201 and with its password is answered 200 with a token, as long as the
\* account is active and its password was not changed.
C19_RegisterThenLogin ==
    (pc = "responded" /\ req.route = "login") =>
        \A r \in C19_Unchanged :
            (req.body.Username \in {r.Username, r.Email} /\ req.body.Password = r.Password)
                => (resp.status = 200 /\ resp.Token # NoToken)

\* the Login of a registered user by e-mail was answered 200 with a token of
\* that user
C19_Witness ==
    /\ pc = "responded"
    /\ req.route = "login"
    /\ \E r \in C19_Unchanged :
          /\ req.body.Username = r.Email
          /\ req.body.Password = r.Password
          /\ resp.status = 200
          /\ resp.Token.UserID = r.ID

\* C14: in every interleaving of Search, GetEntityTypes and GetConfig with
\* RegisterEntity and UpdateConfig, no read or iteration of the registry or
\* of the config overlaps a write to it, and no write overlaps a write.
C14_NoOverlap ==
    /\ \A g, h \in Goroutines : ~Racing(g, h)
    /\ ~fatal

\* a Search reads the config while no goroutine writes it
C14_Witness ==
    \E g, h \in Goroutines :
        /\ g # h
        /\ goroutines[g].method = "searchEntity"
        /\ goroutines[h].method = "GetConfig"
        /\ config # DefaultFuzzySearchConfig

\* the candidates of a list that have a given score, in the order of the list
OfScore(list, score) == SelectSeq(list, LAMBDA x : x.Score = score)

\* no name occurs twice in the list
Distinct(list) == \A i, j \in DOMAIN list : i # j => list[i] # list[j]

\* C21: the candidates of equal score are in the sorted list in the order
\* they have in the concatenation of the result lists of the entities.
C21_StableSort ==
    (SearchAnswered /\ resp.status = 200 /\ Distinct(probe.merged)) =>
        \A i \in DOMAIN probe.merged :
            OfScore(probe.sorted, probe.merged[i].Score)
                = OfScore(probe.merged, probe.merged[i].Score)

\* a merged list that was not in order of score, with two candidates of
\* equal score, was sorted and kept the two in their order
C21_Witness ==
    /\ SearchAnswered
    /\ resp.status = 200
    /\ req.options.SortBy = ""
    /\ Distinct(probe.merged)
    /\ probe.sorted # probe.merged
    /\ \E i, j \in DOMAIN probe.merged :
          i # j /\ probe.merged[i].Score = probe.merged[j].Score
    /\ \A i \in DOMAIN probe.merged :
          OfScore(probe.sorted, probe.merged[i].Score)
              = OfScore(probe.merged, probe.merged[i].Score)

\* the registered entities a Search has queried for which the query of the
\* request leaves no predicate: every term is shorter than MinSearchLength or
\* than the MinLength of every search field
WithoutUsableTerm ==
    {n \in SeqToSet(probe.queried) \cap DOMAIN entities :
        buildSearchConditions(config, entities[n].SearchFields, req.options.Query) = <<>>}

\* C22: an entity for which tokenization leaves no usable term contributes no
\* row to the candidates, whatever the score threshold is, also when the
\* whole query is at least MinSearchLength long; if that is so for every
\* entity searched, total is 0.  (Stated for the searches of authenticated
\* callers.)
C22_NoUsableTerm ==
    (SearchAnswered /\ resp.status = 200 /\ req.options.UserID # Nil) =>
        /\ \A n \in WithoutUsableTerm :
              \A i \in DOMAIN probe.merged : probe.merged[i].Type # n
        /\ WithoutUsableTerm = SeqToSet(probe.queried) => resp.Total = 0

\* under the default threshold, a Search of a query of three characters
\* whose terms are all too short returned total 0
C22_Witness ==
    /\ SearchAnswered
    /\ resp.status = 200
    /\ ~TooShort(config, req.options.Query)
    /\ WithoutUsableTerm # {}
    /\ WithoutUsableTerm = SeqToSet(probe.queried)
    /\ \E n \in WithoutUsableTerm : n \in DOMAIN probe.fetched /\ probe.fetched[n] # {}
    /\ resp.Total = 0

\* the terms of the call's query that are long enough for the field
TermsOfField(field) ==
    SelectSeq(tokenizeQuery(call.cfg, call.query), LAMBDA t : Len(t) >= field.MinLength)

\* the row score when each field is scored with the terms long enough for it
ScoreOfLongTerms ==
    SumSeq([i \in DOMAIN call.fields |->
        LET fieldValue == getField(call.row, call.fields[i].Name)
        IN  IF fieldValue = <<>> THEN 0
            ELSE calculateFieldScore(call.cfg, call.fields[i], fieldValue,
                                     TermsOfField(call.fields[i]))
                 * call.fields[i].Weight])

\* the condition on the field's column with the term is among the conditions
HasCondition(conditions, field, term) ==
    \E k \in DOMAIN conditions :
        /\ conditions[k].Column = field.Name
        /\ conditions[k].Term = (IF call.cfg.CaseSensitive THEN term ELSE ToLower(term))

\* C23: a term shorter than the MinLength of a field yields no predicate on
\* that field and adds nothing to the score of that field, and yields a
\* predicate on, and is scored for, the fields whose MinLength it reaches.
C23_ShortTermSkipped ==
    /\ call.method = "buildSearchConditions" =>
          \A i \in DOMAIN call.fields :
              \A j \in DOMAIN tokenizeQuery(call.cfg, call.query) :
                  LET term == tokenizeQuery(call.cfg, call.query)[j]
                  IN  HasCondition(call.out, call.fields[i], term)
                          <=> Len(term) >= call.fields[i].MinLength
    /\ call.method = "calculateRelevanceScore" => call.out = ScoreOfLongTerms

\* the conditions built for 'acme' over first_name and a username of
\* MinLength 5 are the one on first_name
C23_Witness ==
    /\ call.method = "buildSearchConditions"
    /\ call.fields = UsersByLongUsername
    /\ call.query = acme
    /\ Len(call.out) = 1
    /\ call.out[1].Column = "first_name"

\* the match-type score of one term against a field value, in units of
\* 1/MatchOne: ExactMatchBoost, PrefixMatchBoost, 1.0 or the fuzzy score
MatchTypeScore(cfg, value, term) ==
    LET rank == MatchRank(value, term)
    IN  CASE rank = 3 -> cfg.ExactMatchBoost * FuzzyScale
          [] rank = 2 -> cfg.PrefixMatchBoost * FuzzyScale
          [] rank = 1 -> MatchOne
          [] OTHER    -> calculateFuzzyScore(ToLower(value), ToLower(term))

\* the greatest element of a non-empty set of numbers
Greatest(S) == CHOOSE m \in S : \A other \in S : other <= m

\* the field score of the formula: the maximum over the terms of the
\* match-type score, then multiplied by 1 + boost
FieldScoreOfFormula(cfg, field, value, terms) ==
    IF terms = <<>> THEN 0
    ELSE Greatest({MatchTypeScore(cfg, value, terms[j]) : j \in DOMAIN terms})
         * (Tenth + field.Boost)

\* the row score of the formula: the sum over the fields of field score times
\* weight
RowScoreOfFormula(cfg, fields, row, query) ==
    SumSeq([i \in DOMAIN fields |->
        FieldScoreOfFormula(cfg, fields[i], getField(row, fields[i].Name),
                            tokenizeQuery(cfg, query))
        * fields[i].Weight])

\* C24: the score of a row is the sum over the search fields of field score
\* times weight, the field score being the maximum over the query terms of
\* the match-type score, multiplied by 1 + boost after the maximum is taken.
C24_ScoreFormula ==
    call.method = "calculateRelevanceScore" =>
        call.out = RowScoreOfFormula(call.cfg, call.fields, call.row, call.query)

\* a row with a fuzzy match in one field and a prefix match in another,
\* boosted field is scored as the formula says
C24_Witness ==
    /\ call.method = "calculateRelevanceScore"
    /\ call.fields = UsersByLongUsername
    /\ call.query = acme
    /\ call.row = Store["users"][3]
    /\ call.out > 0
    /\ call.out = RowScoreOfFormula(call.cfg, call.fields, call.row, call.query)

\* how many characters of the term occur in the value
Overlap(value, term) ==
    Cardinality({i \in DOMAIN term : \E k \in DOMAIN value : value[k] = term[i]})

\* C25: for a term that survived tokenization and a field value of which it
\* is neither the whole, nor a prefix, nor a part, the match score is 0 when
\* less than half of the term's characters occur in the value, and that
\* fraction times 0.5 otherwise, whatever the length of the term.
C25_FuzzyScore ==
    call.method = "calculateFuzzyScore" =>
        LET value == call.row
            term == call.query
        IN  call.out = IF 2 * Overlap(value, term) < Len(term) THEN 0
                       ELSE (MatchOne * Overlap(value, term)) \div (2 * Len(term))

\* four of the six characters of 'widget' occur in 'red gadget': the score is
\* 4/6 * 0.5
C25_Witness ==
    /\ call.method = "calculateFuzzyScore"
    /\ call.query = <<"w", "i", "d", "g", "e", "t">>
    /\ call.row = ToLower(RedGadget)
    /\ 3 * call.out = MatchOne

\* the term and the value are the same up to the case of their letters, and
\* not the same
DiffersInCaseOnly(value, term) == value # term /\ ToLower(value) = ToLower(term)

\* the greater of two numbers
Max(a, b) == IF a >= b THEN a ELSE b

\* C26: under CaseSensitive, a term that differs from a field value only in
\* the case of its letters satisfies no predicate of the query on that field
\* and gets no exact, prefix or substring score for it (at most the fuzzy
\* score of 0.5); without CaseSensitive it satisfies the predicate and gets
\* the score of an exact match.
C26_CaseHonoured ==
    /\ call.method = "buildSearchConditions" =>
          \A k \in DOMAIN call.out : \A row \in ScoredRows :
              (/\ call.out[k].Column \in TextColumns(row)
               /\ call.out[k].Kind \in {"exact", "prefix", "contains", "fulltext"}
               /\ DiffersInCaseOnly(row[call.out[k].Column], call.out[k].Term))
                  => (ConditionHolds(call.out[k], row) <=> ~call.cfg.CaseSensitive)
    /\ (/\ call.method = "calculateFieldScore"
        /\ Len(tokenizeQuery(call.cfg, call.query)) = 1
        /\ DiffersInCaseOnly(call.row, tokenizeQuery(call.cfg, call.query)[1])) =>
          IF call.cfg.CaseSensitive
          THEN 2 * call.out <= Max(0, MatchOne * (Tenth + call.fields[1].Boost))
          ELSE call.out = Max(0, call.cfg.ExactMatchBoost * FuzzyScale
                                  * (Tenth + call.fields[1].Boost))

\* under CaseSensitive, the predicate built for 'acme' on first_name does not
\* hold on the row whose first_name is 'Acme'
C26_Witness ==
    /\ call.method = "buildSearchConditions"
    /\ call.cfg.CaseSensitive
    /\ call.query = acme
    /\ \E k \in DOMAIN call.out :
          /\ call.out[k].Column = "first_name"
          /\ call.out[k].Kind = "contains"
          /\ ~ConditionHolds(call.out[k], Store["users"][1])


\* the row a result was converted from, as the entity's display fields
\* project it
RowOfResult(result) ==
    LET stored == CHOOSE s \in SeqToSet(Store[result.Row.Table]) : s.id = result.Row.id
    IN  Project(entities[result.Type], stored)

\* the value contains the term when case is ignored
ContainsFold(value, term) == Contains(ToLower(value), ToLower(term))

\* the value with every occurrence of the term, case ignored, wrapped in
\* <mark> and </mark>
RECURSIVE WrapAll(_, _)
WrapAll(value, term) ==
    IF term = <<>> \/ Len(value) < Len(term) THEN value
    ELSE IF HasPrefix(ToLower(value), ToLower(term))
         THEN Mark(SubSeq(value, 1, Len(term)))
                  \o WrapAll(SubSeq(value, Len(term) + 1, Len(value)), term)
         ELSE <<Head(value)>> \o WrapAll(Tail(value), term)

\* the search fields of the result's entity whose value contains some term
\* of the query when case is ignored
FieldsWithTerm(result) ==
    LET terms == tokenizeQuery(config, req.options.Query)
        row == RowOfResult(result)
    IN  SelectSeq(entities[result.Type].SearchFields,
                  LAMBDA f : \E k \in DOMAIN terms : ContainsFold(getField(row, f.Name), terms[k]))

\* C27: with EnableHighlight a result has one highlight for each search field
\* whose value contains some term when case is ignored, and for a query of
\* one term the highlight is the value with every such occurrence wrapped in
\* <mark>...</mark>; without EnableHighlight a result has no highlights
C27_Highlights ==
    (SearchAnswered /\ resp.status = 200) =>
        \A i \in DOMAIN resp.Results :
            LET result == resp.Results[i]
                terms == tokenizeQuery(config, req.options.Query)
                row == RowOfResult(result)
                fields == FieldsWithTerm(result)
            IN  IF config.EnableHighlight
                THEN /\ Len(result.Highlights) = Len(fields)
                     /\ Len(terms) = 1 =>
                            result.Highlights =
                                [k \in DOMAIN fields |->
                                    WrapAll(getField(row, fields[k].Name), terms[1])]
                ELSE result.Highlights = <<>>

\* a Search returned a result whose highlights are those of the fields that
\* contain the one term of the query, each occurrence wrapped
C27_Witness ==
    /\ SearchAnswered
    /\ resp.status = 200
    /\ config.EnableHighlight
    /\ Len(tokenizeQuery(config, req.options.Query)) = 1
    /\ \E i \in DOMAIN resp.Results :
          LET result == resp.Results[i]
              fields == FieldsWithTerm(result)
          IN  /\ fields # <<>>
              /\ result.Highlights =
                     [k \in DOMAIN fields |->
                         WrapAll(getField(RowOfResult(result), fields[k].Name),
                                 tokenizeQuery(config, req.options.Query)[1])]


\* the upper bound of the slice Search takes of the sorted list
SliceEnd ==
    IF req.options.Offset + probe.limit > Len(probe.sorted)
    THEN Len(probe.sorted) ELSE req.options.Offset + probe.limit

\* C28: a Search that gets as far as the pagination returns a response for
\* every offset and limit of the request and every installed config, a
\* negative offset of a POST body included: the slice of the merged list is
\* taken within the bounds of the list and the request is not answered by the
\* recovery from a panic.
C28_NoPanic ==
    (SearchAnswered /\ ~TooShort(config, req.options.Query)) =>
        /\ resp.status # 500
        /\ req.options.Offset < Len(probe.sorted) =>
              ~SliceOutOfRange(req.options.Offset, SliceEnd, Len(probe.sorted))

\* a Search whose page runs past the end of the list returned the rest of the
\* list, and one whose offset is past the end returned an empty page
C28_Witness ==
    /\ SearchAnswered
    /\ resp.status = 200
    /\ req.options.Offset > 0
    /\ \/ /\ req.options.Offset < Len(probe.sorted)
          /\ req.options.Offset + probe.limit > Len(probe.sorted)
          /\ Len(resp.Results) = Len(probe.sorted) - req.options.Offset
       \/ /\ req.options.Offset >= Len(probe.sorted)
          /\ Len(probe.sorted) > 0
          /\ resp.Results = <<>>


\* the sum of f over the keys in S
RECURSIVE SumOver(_, _)
SumOver(f, S) ==
    IF S = {} THEN 0
    ELSE LET n == CHOOSE x \in S : TRUE
         IN  f[n] + SumOver(f, S \ {n})

\* no row of an entity is behind two of the candidates
RowsOnce(list) ==
    \A i, j \in DOMAIN list :
        i # j => <<list[i].Type, list[i].Row>> # <<list[j].Type, list[j].Row>>

\* C29: in every Search response the counts in categories add up to total,
\* and each row of an entity is behind at most one of the candidates, for
\* every list of entity types, those naming a type more than once included.
C29_CategoriesConsistent ==
    (SearchAnswered /\ resp.status = 200) =>
        /\ SumOver(resp.Categories, DOMAIN resp.Categories) = resp.Total
        /\ RowsOnce(probe.merged)

\* a Search over two entities that both have candidates returned categories
\* adding up to total
C29_Witness ==
    /\ SearchAnswered
    /\ resp.status = 200
    /\ Cardinality({n \in DOMAIN resp.Categories : resp.Categories[n] > 0}) >= 2
    /\ SumOver(resp.Categories, DOMAIN resp.Categories) = resp.Total
    /\ RowsOnce(probe.merged)


\* the accounts created through the public Register
RegisteredIDs == {registered[i].ID : i \in DOMAIN registered}

\* C30: an account created through the public Register never has the role
\* admin or super-admin, and no token issued by Login for such an account
\* passes AuthMiddleware and RequireAdmin.
C30_NoEscalation ==
    /\ \A id \in RegisteredIDs : accounts[id].Role \notin {"admin", "super-admin"}
    /\ \A k \in DOMAIN logins :
          logins[k].UserID \in RegisteredIDs =>
              ~ /\ AuthMiddleware(accounts, blacklist, logins[k], now) = 0
                /\ RequireAdmin(accounts[logins[k].UserID])

\* an account registered without a role has the role user, and its token
\* passes AuthMiddleware but not RequireAdmin
C30_Witness ==
    \E k \in DOMAIN logins :
        /\ logins[k].UserID \in RegisteredIDs
        /\ accounts[logins[k].UserID].Role = "user"
        /\ AuthMiddleware(accounts, blacklist, logins[k], now) = 0
        /\ ~RequireAdmin(accounts[logins[k].UserID])

=============================================================================
